---- MODULE Spec2Model ----
(***************************************************************************)
(* A model of rusocks: the version dispatcher (src/src/lib.rs), the SOCKS5 *)
(* driver (src/src/socks5/mod.rs) and the SOCKS4 driver                    *)
(* (src/src/socks4/mod.rs), for one client connection.                     *)
(*                                                                         *)
(* The client stream is modelled by the bytes the latest reading step      *)
(* consumed from it (rx), the count of all bytes consumed (nrx), the bytes *)
(* written to it (tx) and the event log of every read, write, shutdown     *)
(* and handler hook call, in program order.                                *)
(* A frame that ends before the parser has what it asks for is a client    *)
(* that closed the stream there: the read fails with UnexpectedEof.        *)
(***************************************************************************)
EXTENDS Integers, Sequences, FiniteSets, TLC

VARIABLES pc, rx, nrx, tx, log, result, socks, loc, env, relay

vars == <<pc, rx, nrx, tx, log, result, socks, loc, env, relay>>

(* ------------------------------ bounds -------------------------------- *)
\* Longest method list a modelled client offers in its greeting.
MaxMethods == 2
\* Longest user name, password, user id or host name a modelled client sends.
MaxNameLen == 2

(* ------------------------- program constants -------------------------- *)
VERSION == 5
SUB_NEGOTIATION == 1

Byte == 0..255

Range(s) == {s[i] : i \in DOMAIN s}

RECURSIVE SeqsUpTo(_, _)
\* Every sequence over S of length at most n.
SeqsUpTo(S, n) ==
  IF n = 0 THEN {<<>>}
  ELSE LET shorter == SeqsUpTo(S, n - 1)
       IN shorter \cup {Append(s, x) : s \in {t \in shorter : Len(t) = n - 1}, x \in S}

\* Every prefix of every sequence of F: the client may close the stream anywhere.
Prefixes(F) == UNION {{SubSeq(f, 1, n) : n \in 0..Len(f)} : f \in F}

(* ------------------------------ errors -------------------------------- *)
\* error.rs: an error value; val is the byte a variant carries, of names the
\* I/O error kind of StdIoError and the wrapped error of ExecuteError.
Error(kind, val, of) == [kind |-> kind, val |-> val, of |-> of]
NoError == Error("", 0, "")
IoError(of) == Error("StdIoError", 0, of)
UnsupportedVersion(v) == Error("UnsupportedVersion", v, "")
InvalidCommand(v) == Error("InvalidCommand", v, "")
UnsupportedCommand(v) == Error("UnsupportedCommand", v, "")
InvalidAddressType(v) == Error("InvalidAddressType", v, "")
UnsupportedAddressType(v) == Error("UnsupportedAddressType", v, "")
Utf8BytesToStringError == Error("Utf8BytesToStringError", 0, "")
UnsupportedMethods == Error("UnsupportedMethods", 0, "")
AuthFailed == Error("AuthFailed", 0, "")
InternalError == Error("InternalError", 0, "")
NotImplemented == Error("NotImplemented", 0, "")
\* socks5/mod.rs execute: SocksError::ExecuteError(err.to_string()).
ExecuteError(err) == Error("ExecuteError", err.val, err.kind)

(* ------------------------------ results ------------------------------- *)
\* How a driver ends: Ok, Err(err), or a panic that aborts the task.
Running == [tag |-> "Running", err |-> NoError]
Ok == [tag |-> "Ok", err |-> NoError]
Err(e) == [tag |-> "Err", err |-> e]
Panic == [tag |-> "Panic", err |-> NoError]

(* ------------------------------ events -------------------------------- *)
\* One entry of the log: ev is "read", "write", "shutdown", "relay" or "call";
\* at is the function that reads or writes, or the hook that is called;
\* arg is the reply code of a written reply frame; ret is the outcome.
EvArg(ev, at, arg, ret) == [ev |-> ev, at |-> at, arg |-> arg, ret |-> ret]
Ev(ev, at, ret) == EvArg(ev, at, "", ret)
\* The ret of a write, a shutdown or an outbound call that succeeded or not.
RetOf(wok) == IF wok THEN "ok" ELSE "err"
\* The error of a write or shutdown that failed.
WriteError == IoError("BrokenPipe")

(* --------------------------- socks5 method ---------------------------- *)
Method(tag, val) == [tag |-> tag, val |-> val]
MethodNone == Method("None", 0)
GssApi == Method("GssApi", 0)
UserPass == Method("UserPass", 0)
Unacceptable == Method("Unacceptable", 0)

\* From<u8> with the arms of 1 and 2 exchanged.
MethodFromU8_swapped(value) ==
  CASE value = 0 -> MethodNone
    [] value = 1 -> UserPass
    [] value = 2 -> GssApi
    [] value \in 3..127 -> Method("IanaAssigned", value)
    [] value \in 128..254 -> Method("Private", value)
    [] value = 255 -> Unacceptable

\* impl From<u8> for Method
MethodFromU8(value) ==
  CASE value = 0 -> MethodNone
    [] value = 1 -> GssApi
    [] value = 2 -> UserPass
    [] value \in 3..127 -> Method("IanaAssigned", value)
    [] value \in 128..254 -> Method("Private", value)
    [] value = 255 -> Unacceptable

\* impl Into<u8> for Method
MethodIntoU8(m) ==
  CASE m.tag = "None" -> 0
    [] m.tag = "GssApi" -> 1
    [] m.tag = "UserPass" -> 2
    [] m.tag = "IanaAssigned" -> m.val
    [] m.tag = "Private" -> m.val
    [] m.tag = "Unacceptable" -> 255

(* ------------------------------ UTF-8 --------------------------------- *)
Cont(b) == b \in 128..191

RECURSIVE IsUtf8(_)
\* String::from_utf8 succeeds exactly on well-formed UTF-8.
IsUtf8(s) ==
  IF Len(s) = 0 THEN TRUE
  ELSE LET b == s[1]
           n == Len(s)
       IN CASE b <= 127 -> IsUtf8(SubSeq(s, 2, n))
            [] b \in 194..223 ->
                 n >= 2 /\ Cont(s[2]) /\ IsUtf8(SubSeq(s, 3, n))
            [] b \in 224..239 ->
                 /\ n >= 3
                 /\ Cont(s[2]) /\ Cont(s[3])
                 /\ (b = 224 => s[2] >= 160)
                 /\ (b = 237 => s[2] <= 159)
                 /\ IsUtf8(SubSeq(s, 4, n))
            [] b \in 240..244 ->
                 /\ n >= 4
                 /\ Cont(s[2]) /\ Cont(s[3]) /\ Cont(s[4])
                 /\ (b = 240 => s[2] >= 144)
                 /\ (b = 244 => s[2] <= 143)
                 /\ IsUtf8(SubSeq(s, 5, n))
            [] OTHER -> FALSE

(* ----------------------------- addresses ------------------------------ *)
\* std::net::SocketAddr: fam is "V4" (4 octets) or "V6" (16 octets).
SocketAddr(fam, ip, port) == [fam |-> fam, ip |-> ip, port |-> port]
\* addr.rs SocksAddr: type is "IPV4", "Domain" or "IPV6"; host holds the
\* octets of the address or the bytes of the domain name.
SocksAddr(type, host, port) == [type |-> type, host |-> host, port |-> port]
NoAddr == SocksAddr("", <<>>, 0)

\* u16::to_be_bytes
ToBeBytes(port) == <<port \div 256, port % 256>>
\* read_u16: big-endian
FromBeBytes(hi, lo) == hi * 256 + lo

Ipv4Loopback == <<127, 0, 0, 1>>
Ipv6Loopback == <<0, 0, 0, 0, 0, 0, 0, 0, 0, 0, 0, 0, 0, 0, 0, 1>>
\* The addresses the server's own socket may have (local_addr).
LocalAddrs == {SocketAddr("V4", <<192, 0, 2, 1>>, 1080),
               SocketAddr("V6", Ipv6Loopback, 1080)}

(* --------------------------- socks5 codecs ---------------------------- *)
\* impl TryFrom<u8> for Socks5Command: "" stands for Err(InvalidCommand).
Socks5CommandTryFrom(value) ==
  CASE value = 1 -> "Connect"
    [] value = 2 -> "Bind"
    [] value = 3 -> "Associate"
    [] OTHER -> ""

\* impl Into<u8> for Socks5Command
Socks5CommandIntoU8(c) ==
  CASE c = "Connect" -> 1
    [] c = "Bind" -> 2
    [] c = "Associate" -> 3

\* impl TryFrom<u8> for Socks5AddrType: "" stands for Err(InvalidAddressType).
Socks5AddrTypeTryFrom(code) ==
  CASE code = 1 -> "IPV4"
    [] code = 3 -> "Domain"
    [] code = 4 -> "IPV6"
    [] OTHER -> ""

\* impl From<Socks5AddrType> for u8
Socks5AddrTypeIntoU8(t) ==
  CASE t = "IPV4" -> 1
    [] t = "Domain" -> 3
    [] t = "IPV6" -> 4

\* impl Into<u8> for Socks5Reply
Socks5ReplyIntoU8(r) ==
  CASE r = "Succeeded" -> 0
    [] r = "Failure" -> 1
    [] r = "NotAllowed" -> 2
    [] r = "NetworkUnreachable" -> 3
    [] r = "HostUnreachable" -> 4
    [] r = "ConnectionRefused" -> 5
    [] r = "TTLExpired" -> 6
    [] r = "UnsupportedCommand" -> 7
    [] r = "UnsupportedAddressType" -> 8

\* A reply frame with the port in little-endian order.
Socks5ReplyFrame_le(r, bind_addr) ==
  LET address_type == IF bind_addr.fam = "V4" THEN "IPV4" ELSE "IPV6"
  IN <<VERSION, Socks5ReplyIntoU8(r), 0, Socks5AddrTypeIntoU8(address_type)>>
       \o bind_addr.ip \o <<bind_addr.port % 256, bind_addr.port \div 256>>

\* Socks5Reply::reply: the bytes of one reply frame.
Socks5ReplyFrame(r, bind_addr) ==
  LET address_type == IF bind_addr.fam = "V4" THEN "IPV4" ELSE "IPV6"
  IN <<VERSION, Socks5ReplyIntoU8(r), 0, Socks5AddrTypeIntoU8(address_type)>>
       \o bind_addr.ip \o ToBeBytes(bind_addr.port)

\* bool -> u8 (is_success.into()).
BoolIntoU8(b) == IF b THEN 1 ELSE 0

(* --------------------------- handler hooks ---------------------------- *)
\* What a hook returning Result<bool, Error> may return.
BoolHook == {[ok |-> TRUE, val |-> TRUE, err |-> NoError],
             [ok |-> TRUE, val |-> FALSE, err |-> NoError],
             [ok |-> FALSE, val |-> FALSE, err |-> InternalError]}
HookRet(h) == IF ~h.ok THEN "err" ELSE IF h.val THEN "true" ELSE "false"

\* What Socks5Handler::negotiate_method may return: any method, or an error
\* (the default returns Err(UnsupportedMethods) when None is not offered).
HookMethods == {MethodNone, GssApi, UserPass, Method("Private", 128), Unacceptable}
MethodHook == {[ok |-> TRUE, method |-> m, err |-> NoError] : m \in HookMethods}
                \cup {[ok |-> FALSE, method |-> Unacceptable, err |-> UnsupportedMethods]}

(* ----------------------- socks5: pure step functions ------------------- *)
\* Each takes the bytes f the client sends next and the outcomes of the
\* hooks it may call, and returns what the function returns, the number of
\* bytes it consumed (used) and the events it caused (evs), in order.
Eof == IoError("UnexpectedEof")

\* coerce_method without the membership test.
coerce_method_unchecked(methods, method) == method

\* Socks5::negotiate_method, lines 287-291: a choice the client did not
\* offer becomes Unacceptable.
coerce_method(methods, method) ==
  IF method \in Range(methods) THEN method ELSE Unacceptable

\* Socks5Handler::negotiate_method, the default: what the hook returns for
\* the list methods.
default_negotiate_method(methods) ==
  IF MethodNone \in Range(methods)
  THEN [ok |-> TRUE, method |-> MethodNone, err |-> NoError]
  ELSE [ok |-> FALSE, method |-> Unacceptable, err |-> UnsupportedMethods]

\* Socks5::negotiate_method: h is what handler.negotiate_method returns.
negotiate_method(f, h) ==
  LET at == "negotiate_method"
      fail(e, used, evs) == [ok |-> FALSE, method |-> Unacceptable, err |-> e,
                             used |-> used, evs |-> evs]
  IN IF Len(f) < 1 THEN fail(Eof, 0, <<Ev("read", at, "eof")>>)
     ELSE IF Len(f) < 1 + f[1] THEN fail(Eof, Len(f), <<Ev("read", at, "eof")>>)
     ELSE LET method_length == f[1]
              methods == [i \in 1..method_length |-> MethodFromU8(f[1 + i])]
              evs == <<Ev("read", at, "ok"),
                       Ev("call", "handler.negotiate_method", IF h.ok THEN "ok" ELSE "err")>>
          IN IF ~h.ok THEN fail(h.err, 1 + method_length, evs)
             ELSE [ok |-> TRUE,
                   method |-> coerce_method(methods, h.method),
                   err |-> NoError, used |-> 1 + method_length, evs |-> evs]

\* Socks5::auth_by_user_pass on the bytes g after the sub-negotiation
\* version; h is what handler.auth_by_user_pass returns.
auth_by_user_pass(g, h) ==
  LET at == "auth"
      res(tag, val, e, used, evs) == [tag |-> tag, val |-> val, err |-> e,
                                      used |-> used, evs |-> evs]
      eof == res("Err", FALSE, Eof, Len(g), <<Ev("read", at, "eof")>>)
  IN IF Len(g) < 1 THEN eof
     ELSE LET username_length == g[1]
          IN IF Len(g) < 1 + username_length THEN eof
             ELSE LET username == SubSeq(g, 2, 1 + username_length)
                      p == 2 + username_length
                  IN IF ~IsUtf8(username)
                     THEN res("Err", FALSE, Utf8BytesToStringError, p - 1,
                              <<Ev("read", at, "ok")>>)
                     ELSE IF Len(g) < p THEN eof
                     ELSE LET password_length == g[p]
                          IN IF Len(g) < p + password_length THEN eof
                             ELSE LET password == SubSeq(g, p + 1, p + password_length)
                                  IN IF ~IsUtf8(password)
                                     THEN res("Err", FALSE, Utf8BytesToStringError,
                                              p + password_length, <<Ev("read", at, "ok")>>)
                                     ELSE res(IF h.ok THEN "Ok" ELSE "Err", h.val, h.err,
                                              p + password_length,
                                              <<Ev("read", at, "ok"),
                                                Ev("call", "handler.auth_by_user_pass",
                                                   HookRet(h))>>)

\* Socks5::auth: tag is "Ok" (val is is_success), "Err", or "Panic" (todo!()).
auth(f, method, h) ==
  LET at == "auth"
      res(tag, val, e, used, evs) == [tag |-> tag, val |-> val, err |-> e,
                                      used |-> used, evs |-> evs]
  IN IF method = MethodNone THEN res("Ok", TRUE, NoError, 0, <<>>)
     ELSE IF Len(f) < 1 THEN res("Err", FALSE, Eof, 0, <<Ev("read", at, "eof")>>)
     ELSE LET version == f[1]
          IN IF version # SUB_NEGOTIATION
             THEN res("Err", FALSE, UnsupportedVersion(version), 1, <<Ev("read", at, "ok")>>)
             ELSE IF method = UserPass
             THEN LET r == auth_by_user_pass(Tail(f), h)
                  IN [r EXCEPT !.used = r.used + 1]
             ELSE res("Panic", FALSE, NoError, 1, <<Ev("read", at, "ok")>>)

\* Socks5::auth_reply: the bytes it writes; tag "Panic" is todo!().
auth_reply(method, is_success) ==
  IF method = MethodNone THEN [tag |-> "Ok", bytes |-> <<>>]
  ELSE IF method = UserPass
  THEN [tag |-> "Ok", bytes |-> <<SUB_NEGOTIATION, BoolIntoU8(is_success)>>]
  ELSE [tag |-> "Panic", bytes |-> <<>>]

\* impl From<SocksError> / From<io::Error> for HandshakeError: reply Failure.
HandshakeErrorFrom(err) == [err |-> err, reply |-> "Failure"]
\* HandshakeError::new keeping the error and dropping the reply code.
HandshakeErrorNew_failure(err, reply) == [err |-> err, reply |-> "Failure"]

\* HandshakeError::new
HandshakeErrorNew(err, reply) == [err |-> err, reply |-> reply]

\* The address part of Socks5::negotiate_request, on the bytes g after ATYP.
\* ok, the address, the error, and the bytes consumed.
read_dist_addr(addr_type, g) ==
  LET res(ok, a, e, used) == [ok |-> ok, addr |-> a, err |-> e, used |-> used]
      eof == res(FALSE, NoAddr, Eof, Len(g))
  IN CASE addr_type = "IPV4" ->
            IF Len(g) < 6 THEN eof
            ELSE res(TRUE, SocksAddr("IPV4", SubSeq(g, 1, 4), FromBeBytes(g[5], g[6])),
                     NoError, 6)
       [] addr_type = "Domain" ->
            IF Len(g) < 1 THEN eof
            ELSE LET length == g[1]
                 IN IF Len(g) < 1 + length THEN eof
                    ELSE LET buf == SubSeq(g, 2, 1 + length)
                         IN IF ~IsUtf8(buf)
                            THEN res(FALSE, NoAddr, Utf8BytesToStringError, 1 + length)
                            ELSE IF Len(g) < 3 + length THEN eof
                            ELSE res(TRUE,
                                     SocksAddr("Domain", buf,
                                               FromBeBytes(g[2 + length], g[3 + length])),
                                     NoError, 3 + length)
       [] addr_type = "IPV6" ->
            IF Len(g) < 18 THEN eof
            ELSE res(TRUE, SocksAddr("IPV6", SubSeq(g, 1, 16), FromBeBytes(g[17], g[18])),
                     NoError, 18)

\* Socks5::negotiate_request: hc is what handler.allow_command returns and
\* ha what handler.allow_addr_type returns.  herr is the HandshakeError.
negotiate_request(f, hc, ha) ==
  LET at == "negotiate_request"
      rdok == Ev("read", at, "ok")
      rdeof == Ev("read", at, "eof")
      fail(he, used, evs) == [ok |-> FALSE, command |-> "", addr |-> NoAddr,
                              herr |-> he, used |-> used, evs |-> evs]
  IN IF Len(f) < 1 THEN fail(HandshakeErrorFrom(Eof), 0, <<rdeof>>)
     ELSE IF f[1] # VERSION
     THEN fail(HandshakeErrorFrom(UnsupportedVersion(f[1])), 1, <<rdok>>)
     ELSE IF Len(f) < 2 THEN fail(HandshakeErrorFrom(Eof), 1, <<rdeof>>)
     ELSE LET command == Socks5CommandTryFrom(f[2])
              callc == Ev("call", "handler.allow_command", HookRet(hc))
          IN IF command = ""
             THEN fail(HandshakeErrorFrom(InvalidCommand(f[2])), 2, <<rdok>>)
             ELSE IF ~hc.ok
             THEN fail(HandshakeErrorNew(ExecuteError(hc.err), "Failure"), 2,
                       <<rdok, callc>>)
             ELSE IF ~hc.val
             THEN fail(HandshakeErrorNew(UnsupportedCommand(Socks5CommandIntoU8(command)),
                                         "UnsupportedCommand"), 2, <<rdok, callc>>)
             ELSE IF Len(f) < 4
             THEN fail(HandshakeErrorFrom(Eof), Len(f), <<rdok, callc, rdeof>>)
             ELSE LET addr_type == Socks5AddrTypeTryFrom(f[4])
                      calla == Ev("call", "handler.allow_addr_type", HookRet(ha))
                  IN IF addr_type = ""
                     THEN fail(HandshakeErrorFrom(InvalidAddressType(f[4])), 4,
                               <<rdok, callc, rdok>>)
                     ELSE IF ~ha.ok
                     THEN fail(HandshakeErrorNew(ExecuteError(ha.err), "Failure"), 4,
                               <<rdok, callc, rdok, calla>>)
                     ELSE IF ~ha.val
                     THEN fail(HandshakeErrorNew(
                                 UnsupportedAddressType(Socks5AddrTypeIntoU8(addr_type)),
                                 "UnsupportedAddressType"), 4,
                               <<rdok, callc, rdok, calla>>)
                     ELSE LET a == read_dist_addr(addr_type, SubSeq(f, 5, Len(f)))
                          IN IF ~a.ok
                             THEN fail(HandshakeErrorFrom(a.err), 4 + a.used,
                                       <<rdok, callc, rdok, calla,
                                         IF a.err = Eof THEN rdeof ELSE rdok>>)
                             ELSE [ok |-> TRUE, command |-> command, addr |-> a.addr,
                                   herr |-> HandshakeErrorFrom(NoError),
                                   used |-> 4 + a.used,
                                   evs |-> <<rdok, callc, rdok, calla, rdok>>]

(* --------------------------- socks4 codecs ---------------------------- *)
\* impl TryFrom<u8> for Socks4Command: "" stands for Err(InvalidCommand).
Socks4CommandTryFrom(value) ==
  CASE value = 1 -> "Connect"
    [] value = 2 -> "Bind"
    [] OTHER -> ""

\* impl Into<u8> for Socks4Command
Socks4CommandIntoU8(c) ==
  CASE c = "Connect" -> 1
    [] c = "Bind" -> 2

\* impl Into<u8> for Socks4Reply
Socks4ReplyIntoU8(r) ==
  CASE r = "Granted" -> 90
    [] r = "Rejected" -> 91
    [] r = "RejectedByCannotConnectIdentd" -> 92
    [] r = "RejectedByIdentdReportDifferentUserIds" -> 95

\* impl From<u8> for Socks4Reply
Socks4ReplyFromU8(value) ==
  CASE value = 90 -> "Granted"
    [] value = 91 -> "Rejected"
    [] value = 92 -> "RejectedByCannotConnectIdentd"
    [] value = 95 -> "RejectedByIdentdReportDifferentUserIds"
    [] OTHER -> "Rejected"

\* Socks4Request::reply: the bytes of one reply frame.
Socks4ReplyFrame(r, bind_addr) ==
  <<0, Socks4ReplyIntoU8(r)>> \o ToBeBytes(bind_addr.port) \o bind_addr.ip

\* The index of the first NUL of g, or 0 when g holds none: where the
\* read-until-NUL loop of handshake_request stops.
FirstNul(g) ==
  IF \E i \in 1..Len(g) : g[i] = 0
  THEN CHOOSE i \in 1..Len(g) : g[i] = 0 /\ \A j \in 1..(i - 1) : g[j] # 0
  ELSE 0

\* The marker test without the condition x # 0.
is_socks4a_any_x(ip_bytes) ==
  ip_bytes[1] = 0 /\ ip_bytes[2] = 0 /\ ip_bytes[3] = 0

\* Socks4::handshake_request, line 162: the SOCKS4a marker 0.0.0.x with x # 0.
is_socks4a(ip_bytes) ==
  ip_bytes[1] = 0 /\ ip_bytes[2] = 0 /\ ip_bytes[3] = 0 /\ ip_bytes[4] # 0

\* Socks4::handshake_request: hc is what handler.allow_command returns.
handshake_request(f, hc) ==
  LET at == "handshake_request"
      rdok == Ev("read", at, "ok")
      rdeof == Ev("read", at, "eof")
      fail(e, used, evs) == [ok |-> FALSE, command |-> "", addr |-> NoAddr,
                             user_id |-> <<>>, err |-> e, used |-> used, evs |-> evs]
  IN IF Len(f) < 1 THEN fail(Eof, 0, <<rdeof>>)
     ELSE LET command == Socks4CommandTryFrom(f[1])
              callc == Ev("call", "handler.allow_command", HookRet(hc))
          IN IF command = "" THEN fail(InvalidCommand(f[1]), 1, <<rdok>>)
             ELSE IF ~hc.ok THEN fail(hc.err, 1, <<rdok, callc>>)
             ELSE IF ~hc.val
             THEN fail(UnsupportedCommand(Socks4CommandIntoU8(command)), 1, <<rdok, callc>>)
             ELSE IF Len(f) < 7 THEN fail(Eof, Len(f), <<rdok, callc, rdeof>>)
             ELSE LET port == FromBeBytes(f[2], f[3])
                      ip == SubSeq(f, 4, 7)
                      g == SubSeq(f, 8, Len(f))
                      n == FirstNul(g)
                  IN IF n = 0 THEN fail(Eof, Len(f), <<rdok, callc, rdeof>>)
                     ELSE LET user_id == SubSeq(g, 1, n - 1)
                              k == SubSeq(g, n + 1, Len(g))
                              m == FirstNul(k)
                          IN IF ~IsUtf8(user_id)
                             THEN fail(Utf8BytesToStringError, 7 + n, <<rdok, callc, rdok>>)
                             ELSE IF is_socks4a(ip)
                             THEN IF m = 0
                                  THEN fail(Eof, Len(f), <<rdok, callc, rdeof>>)
                                  ELSE IF ~IsUtf8(SubSeq(k, 1, m - 1))
                                  THEN fail(Utf8BytesToStringError, 7 + n + m,
                                            <<rdok, callc, rdok>>)
                                  ELSE [ok |-> TRUE, command |-> command,
                                        addr |-> SocksAddr("Domain", SubSeq(k, 1, m - 1), port),
                                        user_id |-> user_id, err |-> NoError,
                                        used |-> 7 + n + m, evs |-> <<rdok, callc, rdok>>]
                             ELSE [ok |-> TRUE, command |-> command,
                                   addr |-> SocksAddr("IPV4", ip, port),
                                   user_id |-> user_id, err |-> NoError,
                                   used |-> 7 + n, evs |-> <<rdok, callc, rdok>>]

(* --------------------------- version dispatch -------------------------- *)
\* from_stream with an UnsupportedVersion that does not carry the octet read.
from_stream_wrong_byte(f, sok) ==
  LET at == "from_stream"
      res(tag, e, used, evs) == [tag |-> tag, err |-> e, used |-> used, evs |-> evs]
  IN IF Len(f) < 1 THEN res("Err", Eof, 0, <<Ev("read", at, "eof")>>)
     ELSE CASE f[1] = 4 -> res("V4", NoError, 1, <<Ev("read", at, "ok")>>)
            [] f[1] = 5 -> res("V5", NoError, 1, <<Ev("read", at, "ok")>>)
            [] OTHER -> res("Err", UnsupportedVersion(VERSION), 1,
                            <<Ev("read", at, "ok"), Ev("shutdown", at, RetOf(sok))>>)

\* from_stream returning the error without shutting the stream down.
from_stream_no_shutdown(f, sok) ==
  LET at == "from_stream"
      res(tag, e, used, evs) == [tag |-> tag, err |-> e, used |-> used, evs |-> evs]
  IN IF Len(f) < 1 THEN res("Err", Eof, 0, <<Ev("read", at, "eof")>>)
     ELSE CASE f[1] = 4 -> res("V4", NoError, 1, <<Ev("read", at, "ok")>>)
            [] f[1] = 5 -> res("V5", NoError, 1, <<Ev("read", at, "ok")>>)
            [] OTHER -> res("Err", UnsupportedVersion(f[1]), 1, <<Ev("read", at, "ok")>>)

\* Socks::from_stream: sok tells whether stream.shutdown() succeeds.
from_stream(f, sok) ==
  LET at == "from_stream"
      res(tag, e, used, evs) == [tag |-> tag, err |-> e, used |-> used, evs |-> evs]
  IN IF Len(f) < 1 THEN res("Err", Eof, 0, <<Ev("read", at, "eof")>>)
     ELSE LET version == f[1]
          IN CASE version = 4 -> res("V4", NoError, 1, <<Ev("read", at, "ok")>>)
               [] version = 5 -> res("V5", NoError, 1, <<Ev("read", at, "ok")>>)
               [] OTHER ->
                    res("Err", IF sok THEN UnsupportedVersion(version) ELSE WriteError, 1,
                        <<Ev("read", at, "ok"), Ev("shutdown", at, RetOf(sok))>>)

(* ------------------------- what a client sends ------------------------- *)
\* The first bytes of the stream: from_stream must leave the second unread.
VersionFrames == {<<>>, <<4>>, <<5>>, <<9>>, <<0>>, <<5, 1>>, <<9, 0>>}

MethodBytes == {0, 1, 2, 128, 255}
GreetingFrames ==
  Prefixes({<<Len(ms)>> \o ms : ms \in SeqsUpTo(MethodBytes, MaxMethods)})

\* 97 is "a"; 255 is never part of well-formed UTF-8.
NameBytes == {97, 255}
Names == SeqsUpTo(NameBytes, MaxNameLen)
SubnegFrames ==
  Prefixes({<<v, Len(u)>> \o u \o <<Len(p)>> \o p :
              v \in {SUB_NEGOTIATION, VERSION}, u \in Names, p \in Names})

PortBytes == {<<0, 80>>, <<31, 144>>}
\* ATYP followed by DST.ADDR, for each address type and for the unknown type 2.
DstAddrs == {<<1>> \o Ipv4Loopback, <<4>> \o Ipv6Loopback, <<2>>}
              \cup {<<3, Len(n)>> \o n : n \in Names}
Socks5RequestFrames ==
  Prefixes({<<v, c, 0>> \o a \o p :
              v \in {VERSION, 4}, c \in {1, 2, 3, 9}, a \in DstAddrs, p \in PortBytes})

\* DSTIP: an address, the SOCKS4a marker 0.0.0.7, and 0.0.0.0.
DstIps == {<<93, 184, 216, 34>>, <<0, 0, 0, 7>>, <<0, 0, 0, 0>>}
Socks4RequestFrames ==
  Prefixes({<<c>> \o p \o ip \o u \o <<0>> \o h \o <<0>> :
              c \in {1, 2, 9}, p \in PortBytes, ip \in DstIps,
              u \in SeqsUpTo(NameBytes, MaxNameLen), h \in SeqsUpTo(NameBytes, MaxNameLen)})

\* The bound address a handler's outbound socket or listener may have, and
\* the peer address of the connection a BIND listener accepts.
BoundAddrs == {SocketAddr("V4", <<10, 0, 0, 1>>, 4096),
               SocketAddr("V6", Ipv6Loopback, 4096)}
PeerAddrs == {SocketAddr("V4", <<198, 51, 100, 7>>, 2021)}

(* ------------------------------- state --------------------------------- *)
\* No relay is running.
NoRelay == [mode |-> "none"]

\* The locals of the drivers.
InitLoc == [nm |-> [ok |-> FALSE, method |-> Unacceptable, err |-> NoError],
            method |-> Unacceptable,
            au |-> [tag |-> "", val |-> FALSE, err |-> NoError],
            command |-> "", addr |-> NoAddr,
            bound |-> SocketAddr("V4", <<0, 0, 0, 0>>, 0),
            peer |-> SocketAddr("V4", <<0, 0, 0, 0>>, 0),
            reply |-> "",
            relayed |-> [at |-> 0, n |-> 0],
            hook |-> [trait |-> "", name |-> ""],
            hret |-> [tag |-> "", val |-> "", err |-> NoError],
            herr |-> HandshakeErrorFrom(NoError),
            err |-> NoError]

InitWith(Faulty) ==
  /\ pc = "from_stream"
  /\ rx = <<>>
  /\ nrx = 0
  /\ tx = <<>>
  /\ log = <<>>
  /\ result = Running
  /\ socks = ""
  /\ loc = InitLoc
  /\ env \in [local_addr : LocalAddrs, faulty : Faulty]
  /\ relay = NoRelay

\* A client transport on which writes and shutdown succeed.
Init == InitWith({FALSE})
\* A client transport on which any write or shutdown may fail.
InitFaulty == InitWith(BOOLEAN)

\* The outcomes of a write or a shutdown on the client stream.
WriteOk == IF env.faulty THEN BOOLEAN ELSE {TRUE}

(* ------------------------------ dispatcher ----------------------------- *)
\* Socks::from_stream, and Socks::accept entering the driver it returned.
FromStream ==
  /\ pc = "from_stream"
  /\ \E f \in VersionFrames, sok \in WriteOk :
       LET r == from_stream(f, sok)
       IN /\ r.used = Len(f)
          /\ rx' = f
          /\ nrx' = nrx + r.used
          /\ log' = log \o r.evs
          /\ socks' = IF r.tag = "Err" THEN "" ELSE r.tag
          /\ result' = IF r.tag = "Err" THEN Err(r.err) ELSE result
          /\ pc' = CASE r.tag = "V4" -> "s4_handshake_request"
                     [] r.tag = "V5" -> "s5_negotiate_method"
                     [] OTHER -> "done"
  /\ UNCHANGED <<tx, loc, env, relay>>

(* ---------------------------- socks5 driver ---------------------------- *)
\* negotiate going on to auth although the method reply's write failed.
negotiate_after_method_ignoring_write(nm, wok) ==
  IF nm.ok THEN [pc |-> "s5_auth", err |-> NoError]
  ELSE [pc |-> "s5_execute_err", err |-> nm.err]

\* Socks5::negotiate, lines 227-237: after the method reply was written
\* (wok), go on to auth or return the error.
negotiate_after_method(nm, wok) ==
  IF ~wok THEN [pc |-> "s5_execute_err", err |-> WriteError]
  ELSE IF nm.ok THEN [pc |-> "s5_auth", err |-> NoError]
  ELSE [pc |-> "s5_execute_err", err |-> nm.err]

\* Socks5::negotiate, lines 239-247: the is_success passed to auth_reply.
negotiate_auth_status(au) == IF au.tag = "Ok" THEN au.val ELSE FALSE

\* Socks5::negotiate, lines 239-247: after auth_reply returned.
negotiate_after_auth(au, ar, wok) ==
  IF ar.tag = "Panic" THEN [pc |-> "panic", err |-> NoError]
  ELSE IF ~wok THEN [pc |-> "s5_execute_err", err |-> WriteError]
  ELSE IF au.tag = "Ok" THEN [pc |-> "s5_negotiate_request", err |-> NoError]
  ELSE [pc |-> "s5_execute_err", err |-> au.err]

\* Socks5::negotiate, lines 249-255: after negotiate_request returned.
negotiate_after_request(r) ==
  IF r.ok THEN "s5_command" ELSE "s5_request_err_reply"

\* Socks5::negotiate_method then handler.negotiate_method.
NegotiateMethod ==
  /\ pc = "s5_negotiate_method"
  /\ \E f \in GreetingFrames, h \in MethodHook :
       LET r == negotiate_method(f, h)
       IN /\ r.used = Len(f)
          /\ rx' = f
          /\ nrx' = nrx + r.used
          /\ log' = log \o r.evs
          /\ loc' = [loc EXCEPT !.nm = [ok |-> r.ok, method |-> r.method, err |-> r.err]]
  /\ pc' = "s5_negotiate_method_reply"
  /\ UNCHANGED <<tx, result, socks, env, relay>>

\* Socks5::negotiate_method_reply: the bytes of the method selection message.
negotiate_method_reply(method) == <<VERSION, MethodIntoU8(method)>>

NegotiateMethodReply ==
  /\ pc = "s5_negotiate_method_reply"
  /\ \E wok \in WriteOk :
       LET m == IF loc.nm.ok THEN loc.nm.method ELSE Unacceptable
           n == negotiate_after_method(loc.nm, wok)
       IN /\ tx' = IF wok THEN tx \o negotiate_method_reply(m) ELSE tx
          /\ log' = Append(log, Ev("write", "negotiate_method_reply", RetOf(wok)))
          /\ loc' = [loc EXCEPT !.method = m, !.err = n.err]
          /\ pc' = n.pc
  /\ UNCHANGED <<rx, nrx, result, socks, env, relay>>

\* Socks5::auth (and auth_by_user_pass, handler.auth_by_user_pass).
Auth ==
  /\ pc = "s5_auth"
  /\ \E f \in SubnegFrames, h \in BoolHook :
       LET r == auth(f, loc.method, h)
       IN /\ r.used = Len(f)
          /\ rx' = f
          /\ nrx' = nrx + r.used
          /\ log' = log \o r.evs
          /\ loc' = [loc EXCEPT !.au = [tag |-> r.tag, val |-> r.val, err |-> r.err]]
          /\ pc' = IF r.tag = "Panic" THEN "done" ELSE "s5_auth_reply"
          /\ result' = IF r.tag = "Panic" THEN Panic ELSE result
  /\ UNCHANGED <<tx, socks, env, relay>>

\* Socks5::auth_reply.
AuthReply ==
  /\ pc = "s5_auth_reply"
  /\ \E wok \in WriteOk :
       LET ar == auth_reply(loc.method, negotiate_auth_status(loc.au))
           wrote == ar.tag = "Ok" /\ ar.bytes # <<>>
           n == negotiate_after_auth(loc.au, ar, wrote => wok)
       IN /\ (~wrote => wok)
          /\ tx' = IF wrote /\ wok THEN tx \o ar.bytes ELSE tx
          /\ log' = IF wrote THEN Append(log, Ev("write", "auth_reply", RetOf(wok))) ELSE log
          /\ loc' = [loc EXCEPT !.err = n.err]
          /\ pc' = IF n.pc = "panic" THEN "done" ELSE n.pc
          /\ result' = IF n.pc = "panic" THEN Panic ELSE result
  /\ UNCHANGED <<rx, nrx, socks, env, relay>>

\* Socks5::negotiate_request (and the two allow hooks).
NegotiateRequest ==
  /\ pc = "s5_negotiate_request"
  /\ \E f \in Socks5RequestFrames, hc \in BoolHook, ha \in BoolHook :
       LET r == negotiate_request(f, hc, ha)
       IN /\ r.used = Len(f)
          /\ rx' = f
          /\ nrx' = nrx + r.used
          /\ log' = log \o r.evs
          /\ loc' = [loc EXCEPT !.command = r.command, !.addr = r.addr, !.herr = r.herr]
          /\ pc' = negotiate_after_request(r)
  /\ UNCHANGED <<tx, result, socks, env, relay>>

\* Socks5::negotiate, lines 251-254: err.reply.reply(stream, self.local_addr).
RequestErrReply ==
  /\ pc = "s5_request_err_reply"
  /\ \E wok \in WriteOk :
       /\ tx' = IF wok THEN tx \o Socks5ReplyFrame(loc.herr.reply, env.local_addr) ELSE tx
       /\ log' = Append(log, EvArg("write", "reply", loc.herr.reply, RetOf(wok)))
       /\ loc' = [loc EXCEPT !.err = IF wok THEN loc.herr.err ELSE WriteError]
  /\ pc' = "s5_execute_err"
  /\ UNCHANGED <<rx, nrx, result, socks, env, relay>>

\* What opening the outbound socket or the listener may give the handler:
\* its bound address, or an I/O error.
ConnectErrors == {IoError("ConnectionRefused"), IoError("HostUnreachable")}
OpenOutcomes ==
  {[ok |-> TRUE, bound |-> b, err |-> NoError] : b \in BoundAddrs}
    \cup {[ok |-> FALSE, bound |-> SocketAddr("V4", <<0, 0, 0, 0>>, 0), err |-> e] :
            e \in ConnectErrors}
\* The I/O errors of a relay's transfer: a read that fails (connection
\* reset) or a write, to the client or to the remote host, that fails
\* (broken pipe).
RelayErrors == {IoError("ConnectionReset"), IoError("BrokenPipe")}
\* How a call of io::copy_bidirectional ends. err is the error of the
\* transfer's reads and writes, NoError when both directions reached EOF.
\* shut is the shutdown of the client stream, done when the remote-to-client
\* direction has ended: "ok", "err" (wok holds FALSE: the transport may fail)
\* or "none" when the transfer failed before that direction ended. A
\* transfer that fails in the other direction can fail after the shutdown.
RelayOutcomes(wok) ==
  {o \in [err : {NoError} \cup RelayErrors, shut : {"none", "ok", "err"}] :
     IF o.err = NoError
     THEN o.shut # "none" /\ (o.shut = "err" => FALSE \in wok)
     ELSE o.shut # "err"}
\* What the client sends after its request and what the remote host sends,
\* during the relay.
RelayClientBytes == {<<>>, <<170, 187>>}
RelayRemoteBytes == {<<>>, <<1, 2>>}

\* io::copy_bidirectional(stream, remote) seen from the client stream: it
\* reads the bytes c the client sends and forwards them, writes the bytes r
\* of the remote host to the client, shuts the client stream down when the
\* remote-to-client direction has ended, and returns Ok when both directions
\* have ended; an error of a read, a write or the shutdown is returned at
\* once. o is how the call ends.
copy_bidirectional(c, r, o) ==
  [ok |-> o.err = NoError /\ o.shut = "ok",
   err |-> IF o.err # NoError THEN o.err
           ELSE IF o.shut = "err" THEN WriteError ELSE NoError,
   used |-> Len(c),
   bytes |-> r,
   evs |-> <<Ev("relay", "copy_bidirectional", RetOf(o.err = NoError))>>
             \o (IF o.shut = "none" THEN <<>>
                 ELSE <<Ev("shutdown", "copy_bidirectional", RetOf(o.shut = "ok"))>>)]

\* The handler going on to the relay without writing its Succeeded reply.
handler_open_unreplied(o, wok, next) ==
  IF ~o.ok THEN [pc |-> "s5_command_err_reply", err |-> o.err, bytes |-> <<>>, evs |-> <<>>]
  ELSE [pc |-> next, err |-> NoError, bytes |-> <<>>, evs |-> <<>>]

\* Socks5Handler::connect (the default) up to its Succeeded reply, and
\* Socks5Handler::bind up to its first Succeeded reply: o is the outcome of
\* TcpStream::connect or TcpListener::bind, wok that of the reply's write.
handler_open(o, wok, next) ==
  IF ~o.ok THEN [pc |-> "s5_command_err_reply", err |-> o.err, bytes |-> <<>>, evs |-> <<>>]
  ELSE IF ~wok
  THEN [pc |-> "s5_command_err_reply", err |-> WriteError, bytes |-> <<>>,
        evs |-> <<EvArg("write", "reply", "Succeeded", "err")>>]
  ELSE [pc |-> next, err |-> NoError, bytes |-> Socks5ReplyFrame("Succeeded", o.bound),
        evs |-> <<EvArg("write", "reply", "Succeeded", "ok")>>]

\* Socks5::connect calling handler.connect.
Socks5Connect ==
  /\ pc = "s5_command"
  /\ loc.command = "Connect"
  /\ \E o \in OpenOutcomes, wok \in WriteOk :
       LET r == handler_open(o, wok, "s5_relay")
       IN /\ (~o.ok => wok)
          /\ tx' = tx \o r.bytes
          /\ log' = log \o <<Ev("call", "handler.connect", RetOf(o.ok))>> \o r.evs
          /\ loc' = [loc EXCEPT !.err = r.err, !.bound = o.bound]
          /\ pc' = r.pc
  /\ UNCHANGED <<rx, nrx, result, socks, env, relay>>

\* Socks5::bind calling handler.bind, up to the first reply.
Socks5Bind ==
  /\ pc = "s5_command"
  /\ loc.command = "Bind"
  /\ \E o \in OpenOutcomes, wok \in WriteOk :
       LET r == handler_open(o, wok, "s5_bind_accept")
       IN /\ (~o.ok => wok)
          /\ tx' = tx \o r.bytes
          /\ log' = log \o <<Ev("call", "handler.bind", RetOf(o.ok))>> \o r.evs
          /\ loc' = [loc EXCEPT !.err = r.err, !.bound = o.bound]
          /\ pc' = r.pc
  /\ UNCHANGED <<rx, nrx, result, socks, env, relay>>

\* The second reply carrying the listener's address again instead of the
\* accepted peer's.
Socks5BindAccept_bound_again ==
  /\ pc = "s5_bind_accept"
  /\ \E aok \in BOOLEAN, peer_addr \in PeerAddrs, wok \in WriteOk :
       /\ (~aok => wok)
       /\ tx' = IF aok /\ wok THEN tx \o Socks5ReplyFrame("Succeeded", loc.bound) ELSE tx
       /\ log' = log \o <<Ev("call", "listener.accept", RetOf(aok))>>
                     \o (IF aok THEN <<EvArg("write", "reply", "Succeeded", RetOf(wok))>>
                         ELSE <<>>)
       /\ loc' = [loc EXCEPT !.err = IF ~aok THEN IoError("ConnectionAborted")
                                     ELSE IF ~wok THEN WriteError ELSE NoError,
                              !.peer = peer_addr]
       /\ pc' = IF aok /\ wok THEN "s5_relay" ELSE "s5_command_err_reply"
  /\ UNCHANGED <<rx, nrx, result, socks, env, relay>>

\* Socks5Handler::bind, lines 73-75: listener.accept() and the second reply.
Socks5BindAccept ==
  /\ pc = "s5_bind_accept"
  /\ \E aok \in BOOLEAN, peer_addr \in PeerAddrs, wok \in WriteOk :
       /\ (~aok => wok)
       /\ tx' = IF aok /\ wok THEN tx \o Socks5ReplyFrame("Succeeded", peer_addr) ELSE tx
       /\ log' = log \o <<Ev("call", "listener.accept", RetOf(aok))>>
                     \o (IF aok THEN <<EvArg("write", "reply", "Succeeded", RetOf(wok))>>
                         ELSE <<>>)
       /\ loc' = [loc EXCEPT !.err = IF ~aok THEN IoError("ConnectionAborted")
                                     ELSE IF ~wok THEN WriteError ELSE NoError,
                              !.peer = peer_addr]
       /\ pc' = IF aok /\ wok THEN "s5_relay" ELSE "s5_command_err_reply"
  /\ UNCHANGED <<rx, nrx, result, socks, env, relay>>

\* examples/tcp.rs socks5_command_bind, lines 118-129: the 20 s sleep wins
\* the select! and the handler returns Ok(()). The accept branch has the
\* pattern Ok(..): when listener.accept() fails (afail) the branch is
\* disabled and the select! goes on waiting for the sleep.
Socks5BindTimeout ==
  /\ pc = "s5_bind_accept"
  /\ \E afail \in BOOLEAN :
       log' = log \o (IF afail THEN <<Ev("call", "listener.accept", "err")>> ELSE <<>>)
                  \o <<Ev("call", "time.sleep", "elapsed")>>
  /\ result' = Ok
  /\ pc' = "done"
  /\ UNCHANGED <<rx, nrx, tx, socks, loc, env, relay>>

\* Socks5::associate calling handler.associate: unimplemented!().
Socks5Associate ==
  /\ pc = "s5_command"
  /\ loc.command = "Associate"
  /\ log' = Append(log, Ev("call", "handler.associate", "panic"))
  /\ result' = Panic
  /\ pc' = "done"
  /\ UNCHANGED <<rx, nrx, tx, socks, loc, env, relay>>

\* io::copy_bidirectional in Socks5Handler::connect and ::bind.
Socks5Relay ==
  /\ pc = "s5_relay"
  /\ \E c \in RelayClientBytes, r \in RelayRemoteBytes, o \in RelayOutcomes(WriteOk) :
       LET cb == copy_bidirectional(c, r, o)
       IN /\ rx' = c
          /\ nrx' = nrx + cb.used
          /\ tx' = tx \o cb.bytes
          /\ log' = log \o cb.evs
          /\ loc' = [loc EXCEPT !.err = cb.err,
                                 !.relayed = [at |-> Len(tx), n |-> Len(cb.bytes)]]
          /\ pc' = IF cb.ok THEN "done" ELSE "s5_command_err_reply"
          /\ result' = IF cb.ok THEN Ok ELSE result
  /\ UNCHANGED <<socks, env, relay>>

\* Socks5::connect / ::bind, the Err arm: Socks5Reply::Failure.reply(..).
Socks5CommandErrReply ==
  /\ pc = "s5_command_err_reply"
  /\ \E wok \in WriteOk :
       /\ tx' = IF wok THEN tx \o Socks5ReplyFrame("Failure", env.local_addr) ELSE tx
       /\ log' = Append(log, EvArg("write", "reply", "Failure", RetOf(wok)))
       /\ loc' = [loc EXCEPT !.err = IF wok THEN loc.err ELSE WriteError]
  /\ pc' = "s5_execute_err"
  /\ UNCHANGED <<rx, nrx, result, socks, env, relay>>

\* Socks5::execute, the Err arm: shutdown, then Err(ExecuteError(..)).
execute_err(err, sok) == IF sok THEN Err(ExecuteError(err)) ELSE Err(WriteError)

Socks5ExecuteErr ==
  /\ pc = "s5_execute_err"
  /\ \E sok \in WriteOk :
       /\ log' = Append(log, Ev("shutdown", "execute", RetOf(sok)))
       /\ result' = execute_err(loc.err, sok)
  /\ pc' = "done"
  /\ UNCHANGED <<rx, nrx, tx, socks, loc, env, relay>>

(* ---------------------------- socks4 driver ---------------------------- *)
\* Socks4::handshake_request (and handler.allow_command).
Socks4HandshakeRequest ==
  /\ pc = "s4_handshake_request"
  /\ \E f \in Socks4RequestFrames, hc \in BoolHook :
       LET r == handshake_request(f, hc)
       IN /\ r.used = Len(f)
          /\ rx' = f
          /\ nrx' = nrx + r.used
          /\ log' = log \o r.evs
          /\ loc' = [loc EXCEPT !.command = r.command, !.addr = r.addr, !.err = r.err]
          /\ pc' = IF r.ok THEN "s4_identd" ELSE "s4_reject"
  /\ UNCHANGED <<tx, result, socks, env, relay>>

\* handshake going on to the command although identd returned false.
handshake_after_identd_unchecked(h) ==
  IF ~h.ok THEN [pc |-> "s4_reject", err |-> h.err]
  ELSE [pc |-> "s4_command", err |-> NoError]

\* handshake failing with the generic error when identd returns false.
handshake_after_identd_internal_error(h) ==
  IF ~h.ok THEN [pc |-> "s4_reject", err |-> h.err]
  ELSE IF ~h.val THEN [pc |-> "s4_reject", err |-> InternalError]
  ELSE [pc |-> "s4_command", err |-> NoError]

\* Socks4::handshake, lines 91-106: what follows handler.identd returning h.
handshake_after_identd(h) ==
  IF ~h.ok THEN [pc |-> "s4_reject", err |-> h.err]
  ELSE IF ~h.val THEN [pc |-> "s4_reject", err |-> AuthFailed]
  ELSE [pc |-> "s4_command", err |-> NoError]

\* Socks4::handshake calling handler.identd.
Socks4Identd ==
  /\ pc = "s4_identd"
  /\ \E h \in BoolHook :
       LET n == handshake_after_identd(h)
       IN /\ log' = Append(log, Ev("call", "handler.identd", HookRet(h)))
          /\ loc' = [loc EXCEPT !.err = n.err]
          /\ pc' = n.pc
  /\ UNCHANGED <<rx, nrx, tx, result, socks, env, relay>>

\* A failure arm that returns Err(err) without writing its reply.
Socks4Reject_silent ==
  /\ pc = "s4_reject"
  /\ pc' = "s4_accept_err"
  /\ UNCHANGED <<rx, nrx, tx, log, result, socks, loc, env, relay>>

\* handshake_request_reply(stream, Socks4Reply::Rejected, self.local_addr),
\* then return Err(err): the failure arms of handshake, connect and bind.
Socks4Reject ==
  /\ pc = "s4_reject"
  /\ \E wok \in WriteOk :
       /\ tx' = IF wok THEN tx \o Socks4ReplyFrame("Rejected", env.local_addr) ELSE tx
       /\ log' = Append(log, EvArg("write", "reply", "Rejected", RetOf(wok)))
       /\ loc' = [loc EXCEPT !.err = IF wok THEN loc.err ELSE WriteError]
  /\ pc' = "s4_accept_err"
  /\ UNCHANGED <<rx, nrx, result, socks, env, relay>>

\* What a SOCKS4 handler's connect or bind may give: as for SOCKS5, or the
\* default Err(NotImplemented).
Socks4OpenOutcomes ==
  OpenOutcomes \cup {[ok |-> FALSE, bound |-> SocketAddr("V4", <<0, 0, 0, 0>>, 0),
                      err |-> NotImplemented]}

\* Socks4::connect replying with the local address instead of the bound
\* address the handler returned.
Socks4Connect_local_addr ==
  /\ pc = "s4_command"
  /\ loc.command = "Connect"
  /\ \E o \in Socks4OpenOutcomes, wok \in WriteOk :
       /\ (~o.ok => wok)
       /\ tx' = IF o.ok /\ wok THEN tx \o Socks4ReplyFrame("Granted", env.local_addr) ELSE tx
       /\ log' = log \o <<Ev("call", "handler.connect", RetOf(o.ok))>>
                     \o (IF o.ok THEN <<EvArg("write", "reply", "Granted", RetOf(wok))>>
                         ELSE <<>>)
       /\ loc' = [loc EXCEPT !.err = IF ~o.ok THEN o.err
                                     ELSE IF ~wok THEN WriteError ELSE NoError,
                              !.bound = o.bound]
       /\ pc' = IF ~o.ok THEN "s4_reject" ELSE IF ~wok THEN "s4_accept_err" ELSE "s4_relay"
  /\ UNCHANGED <<rx, nrx, result, socks, env, relay>>

\* Socks4::connect: handler.connect, the Granted reply, then the relay.
Socks4Connect ==
  /\ pc = "s4_command"
  /\ loc.command = "Connect"
  /\ \E o \in Socks4OpenOutcomes, wok \in WriteOk :
       /\ (~o.ok => wok)
       /\ tx' = IF o.ok /\ wok THEN tx \o Socks4ReplyFrame("Granted", o.bound) ELSE tx
       /\ log' = log \o <<Ev("call", "handler.connect", RetOf(o.ok))>>
                     \o (IF o.ok THEN <<EvArg("write", "reply", "Granted", RetOf(wok))>>
                         ELSE <<>>)
       /\ loc' = [loc EXCEPT !.err = IF ~o.ok THEN o.err
                                     ELSE IF ~wok THEN WriteError ELSE NoError,
                              !.bound = o.bound]
       /\ pc' = IF ~o.ok THEN "s4_reject" ELSE IF ~wok THEN "s4_accept_err" ELSE "s4_relay"
  /\ UNCHANGED <<rx, nrx, result, socks, env, relay>>

\* Socks4::bind calling handler.bind (examples/tcp.rs socks4_command_bind),
\* up to its Granted reply.
Socks4Bind ==
  /\ pc = "s4_command"
  /\ loc.command = "Bind"
  /\ \E o \in Socks4OpenOutcomes, wok \in WriteOk :
       /\ (~o.ok => wok)
       /\ tx' = IF o.ok /\ wok THEN tx \o Socks4ReplyFrame("Granted", o.bound) ELSE tx
       /\ log' = log \o <<Ev("call", "handler.bind", RetOf(o.ok))>>
                     \o (IF o.ok THEN <<EvArg("write", "reply", "Granted", RetOf(wok))>>
                         ELSE <<>>)
       /\ loc' = [loc EXCEPT !.err = IF ~o.ok THEN o.err
                                     ELSE IF ~wok THEN WriteError ELSE NoError,
                              !.bound = o.bound]
       /\ pc' = IF o.ok /\ wok THEN "s4_bind_accept" ELSE "s4_reject"
  /\ UNCHANGED <<rx, nrx, result, socks, env, relay>>

\* examples/tcp.rs socks4_command_bind, line 86: listener.accept().
Socks4BindAccept ==
  /\ pc = "s4_bind_accept"
  /\ \E aok \in BOOLEAN :
       /\ log' = Append(log, Ev("call", "listener.accept", RetOf(aok)))
       /\ loc' = [loc EXCEPT !.err = IF aok THEN NoError ELSE IoError("ConnectionAborted")]
       /\ pc' = IF aok THEN "s4_relay" ELSE "s4_reject"
  /\ UNCHANGED <<rx, nrx, tx, result, socks, env, relay>>

\* io::copy_bidirectional: in Socks4::connect an error is returned with ?,
\* in the bind handler of examples/tcp.rs it is unwrapped.
Socks4Relay ==
  /\ pc = "s4_relay"
  /\ \E c \in RelayClientBytes, r \in RelayRemoteBytes, o \in RelayOutcomes(WriteOk) :
       LET cb == copy_bidirectional(c, r, o)
       IN /\ rx' = c
          /\ nrx' = nrx + cb.used
          /\ tx' = tx \o cb.bytes
          /\ log' = log \o cb.evs
          /\ loc' = [loc EXCEPT !.err = cb.err,
                                 !.relayed = [at |-> Len(tx), n |-> Len(cb.bytes)]]
          /\ pc' = IF cb.ok \/ loc.command = "Bind" THEN "done" ELSE "s4_accept_err"
          /\ result' = IF cb.ok THEN Ok ELSE IF loc.command = "Bind" THEN Panic ELSE result
  /\ UNCHANGED <<socks, env, relay>>

\* Socks4::accept, the Err arm: shutdown, then Err(err).
accept_err(err, sok) == IF sok THEN Err(err) ELSE Err(WriteError)

Socks4AcceptErr ==
  /\ pc = "s4_accept_err"
  /\ \E sok \in WriteOk :
       /\ log' = Append(log, Ev("shutdown", "accept", RetOf(sok)))
       /\ result' = accept_err(loc.err, sok)
  /\ pc' = "done"
  /\ UNCHANGED <<rx, nrx, tx, socks, loc, env, relay>>

(* ---------------------------- specification ---------------------------- *)
Next ==
  \/ FromStream
  \/ NegotiateMethod
  \/ NegotiateMethodReply
  \/ Auth
  \/ AuthReply
  \/ NegotiateRequest
  \/ RequestErrReply
  \/ Socks5Connect
  \/ Socks5Bind
  \/ Socks5BindAccept
  \/ Socks5BindTimeout
  \/ Socks5Associate
  \/ Socks5Relay
  \/ Socks5CommandErrReply
  \/ Socks5ExecuteErr
  \/ Socks4HandshakeRequest
  \/ Socks4Identd
  \/ Socks4Reject
  \/ Socks4Connect
  \/ Socks4Bind
  \/ Socks4BindAccept
  \/ Socks4Relay
  \/ Socks4AcceptErr

\* Writes to the client and its shutdown succeed.
Spec == Init /\ [][Next]_vars
\* Writes to the client and its shutdown may fail.
SpecFaulty == InitFaulty /\ [][Next]_vars
\* Every read, write, hook and relay the driver awaits eventually completes.
SpecLive == Init /\ [][Next]_vars /\ WF_vars(Next)

(* -------------------------------- codecs ------------------------------- *)
\* One byte b is decoded to a variant and the variant is encoded again; rx
\* holds b, loc the variant and tx the byte it encodes to.
InitCodec ==
  /\ pc = "codec"
  /\ \E b \in 0..255 : rx = <<b>>
  /\ nrx = 0
  /\ tx = <<>>
  /\ log = <<>>
  /\ result = Running
  /\ socks = ""
  /\ loc = InitLoc
  /\ env \in [local_addr : LocalAddrs, faulty : {FALSE}]
  /\ relay = NoRelay

\* Method::from(b)
MethodFrom ==
  /\ pc = "codec"
  /\ loc' = [loc EXCEPT !.method = MethodFromU8(rx[1])]
  /\ pc' = "codec_method"
  /\ UNCHANGED <<rx, nrx, tx, log, result, socks, env, relay>>

\* method.into()
MethodInto ==
  /\ pc = "codec_method"
  /\ tx' = <<MethodIntoU8(loc.method)>>
  /\ pc' = "codec_method_done"
  /\ UNCHANGED <<rx, nrx, log, result, socks, loc, env, relay>>

\* Socks4Reply::from(b)
Socks4ReplyFrom ==
  /\ pc = "codec"
  /\ loc' = [loc EXCEPT !.reply = Socks4ReplyFromU8(rx[1])]
  /\ pc' = "codec_reply"
  /\ UNCHANGED <<rx, nrx, tx, log, result, socks, env, relay>>

\* reply.into()
Socks4ReplyInto ==
  /\ pc = "codec_reply"
  /\ tx' = <<Socks4ReplyIntoU8(loc.reply)>>
  /\ pc' = "codec_reply_done"
  /\ UNCHANGED <<rx, nrx, log, result, socks, loc, env, relay>>

NextCodec ==
  \/ MethodFrom
  \/ MethodInto
  \/ Socks4ReplyFrom
  \/ Socks4ReplyInto

SpecCodec == InitCodec /\ [][NextCodec]_vars

(* --------------------------- default hooks ----------------------------- *)
\* What a hook returns: Ok(val), Err(err), or a panic.
Returned(val) == [tag |-> "Ok", val |-> val, err |-> NoError]
Failed(e) == [tag |-> "Err", val |-> "", err |-> e]
Panicked == [tag |-> "Panic", val |-> "", err |-> NoError]

\* The provided methods of trait SocksHandler (lib.rs).
SocksHandlerHooks ==
  {"socks4_handshake_command", "socks4_auth", "socks5_handshake_method",
   "socks5_auth_username_password", "socks5_auth_gssapi",
   "socks5_handshake_command", "socks5_handshake_address",
   "socks4_command_connect", "socks4_command_bind",
   "socks5_command_connect", "socks5_command_bind"}
SocksHandler_default(hook) ==
  CASE hook = "socks4_handshake_command" -> Returned("true")
    [] hook = "socks4_auth" -> Returned("true")
    [] hook = "socks5_handshake_method" -> Returned("None")
    [] hook = "socks5_auth_username_password" -> Returned("false")
    [] hook = "socks5_auth_gssapi" -> Returned("false")
    [] hook = "socks5_handshake_command" -> Returned("true")
    [] hook = "socks5_handshake_address" -> Returned("true")
    [] hook = "socks4_command_connect" -> Failed(InternalError)
    [] hook = "socks4_command_bind" -> Failed(InternalError)
    [] hook = "socks5_command_connect" -> Failed(InternalError)
    [] hook = "socks5_command_bind" -> Failed(InternalError)

\* The provided methods of trait Socks4Handler (socks4/mod.rs).
Socks4HandlerHooks == {"allow_command", "identd", "connect", "bind"}
Socks4Handler_default(hook) ==
  CASE hook = "allow_command" -> Returned("true")
    [] hook = "identd" -> Returned("true")
    [] hook = "connect" -> Failed(NotImplemented)
    [] hook = "bind" -> Failed(NotImplemented)

\* The provided methods of trait Socks5Handler (socks5/mod.rs) that return
\* at once; associate is unimplemented!().  connect and bind open a socket,
\* reply and relay on the client stream: they are the steps Socks5Connect,
\* Socks5Bind, Socks5BindAccept and Socks5Relay.
Socks5HandlerHooks ==
  {"negotiate_method", "auth_by_user_pass", "allow_command", "allow_addr_type",
   "connect", "bind", "associate"}
Socks5Handler_default(hook, methods) ==
  CASE hook = "negotiate_method" ->
         LET r == default_negotiate_method(methods)
         IN IF r.ok THEN Returned("None") ELSE Failed(r.err)
    [] hook = "auth_by_user_pass" -> Returned("false")
    [] hook = "allow_command" -> Returned("true")
    [] hook = "allow_addr_type" -> Returned("true")
    [] hook = "associate" -> Panicked

\* A hook of a handler that overrides nothing is about to be called; rx
\* holds the method bytes a client offered (the argument of the method
\* hooks).
InitHandler ==
  /\ pc = "hook"
  /\ rx \in SeqsUpTo(MethodBytes, MaxMethods)
  /\ nrx = 0
  /\ tx = <<>>
  /\ log = <<>>
  /\ result = Running
  /\ socks = ""
  /\ \E h \in ({"SocksHandler"} \X SocksHandlerHooks)
               \cup ({"Socks4Handler"} \X Socks4HandlerHooks)
               \cup ({"Socks5Handler"} \X Socks5HandlerHooks) :
       loc = [InitLoc EXCEPT !.hook = [trait |-> h[1], name |-> h[2]]]
  /\ env \in [local_addr : LocalAddrs, faulty : BOOLEAN]
  /\ relay = NoRelay

CallSocksHandler ==
  /\ pc = "hook"
  /\ loc.hook.trait = "SocksHandler"
  /\ loc' = [loc EXCEPT !.hret = SocksHandler_default(loc.hook.name)]
  /\ pc' = "hook_done"
  /\ UNCHANGED <<rx, nrx, tx, log, result, socks, env, relay>>

CallSocks4Handler ==
  /\ pc = "hook"
  /\ loc.hook.trait = "Socks4Handler"
  /\ loc' = [loc EXCEPT !.hret = Socks4Handler_default(loc.hook.name)]
  /\ pc' = "hook_done"
  /\ UNCHANGED <<rx, nrx, tx, log, result, socks, env, relay>>

\* A provided method of Socks5Handler is called.  connect and bind are
\* entered (their body runs in the steps that follow); the others return.
CallSocks5Handler ==
  /\ pc = "hook"
  /\ loc.hook.trait = "Socks5Handler"
  /\ LET methods == [i \in 1..Len(rx) |-> MethodFromU8(rx[i])]
     IN CASE loc.hook.name = "connect" ->
               /\ loc' = [loc EXCEPT !.command = "Connect"]
               /\ pc' = "s5_command"
          [] loc.hook.name = "bind" ->
               /\ loc' = [loc EXCEPT !.command = "Bind"]
               /\ pc' = "s5_command"
          [] OTHER ->
               /\ loc' = [loc EXCEPT !.hret = Socks5Handler_default(loc.hook.name, methods)]
               /\ pc' = "hook_done"
  /\ UNCHANGED <<rx, nrx, tx, log, result, socks, env, relay>>

\* Socks5Handler::connect and ::bind return: Ok(()) after a relay that ended
\* well, Err(io) from the `?` of the step that failed.  A listener that
\* never accepts or a relay that never ends is no step: the method does not
\* return.
Socks5HandlerReturn ==
  /\ loc.hook.trait = "Socks5Handler"
  /\ pc \in {"done", "s5_command_err_reply"}
  /\ loc' = [loc EXCEPT !.hret = IF pc = "done" THEN Returned("unit")
                                 ELSE Failed(loc.err)]
  /\ pc' = "hook_done"
  /\ UNCHANGED <<rx, nrx, tx, log, result, socks, env, relay>>

NextHandler ==
  \/ CallSocksHandler
  \/ CallSocks4Handler
  \/ CallSocks5Handler
  \/ Socks5Connect
  \/ Socks5Bind
  \/ Socks5BindAccept
  \/ Socks5Relay
  \/ Socks5HandlerReturn

SpecHandler == InitHandler /\ [][NextHandler]_vars

(* -------------------------------- relay -------------------------------- *)
\* The relay between the client and the remote stream, byte by byte. Each
\* direction d has the bytes the relay will find on the stream it reads
\* (src[d]), how many of them it has read (pos[d]), the bytes read and not
\* yet written (buf[d]), whether a read has returned 0 bytes (eof[d]), the
\* bytes written to the receiver (out[d]) and whether the direction has
\* ended (done[d]).  sent is what the client sent after its request.
MaxRelayLen == 2
Dirs == {"c2r", "r2c"}
\* io::copy_bidirectional in the library and the handlers of examples/tcp.rs,
\* select! over two tokio::io::copy in forward_traffic of examples/a.rs.
RelayModes == {"copy_bidirectional", "select"}

\* The bytes of g after the first n.
DropFirst(g, n) == SubSeq(g, n + 1, Len(g))

\* What a client sends up to the end of its request: SOCKS4 CONNECT with a
\* user id, SOCKS4a CONNECT with a host name, SOCKS5 (one method, None)
\* CONNECT to an IPv4 address and BIND to a host name.
RelayHandshakes ==
  {<<4, 1, 0, 80, 93, 184, 216, 34, 97, 0>>,
   <<4, 1, 0, 80, 0, 0, 0, 7, 0, 97, 0>>,
   <<5, 1, 0, 5, 1, 0, 1, 127, 0, 0, 1, 0, 80>>,
   <<5, 1, 0, 5, 2, 0, 3, 1, 97, 0, 80>>}
\* What the client sends after its request (bytes that could be taken for a
\* host name and its terminator) and what the remote host sends.
RelayClientSent == Prefixes({SubSeq(<<97, 0, 187, 204>>, 1, MaxRelayLen)})
RelayRemoteSent == Prefixes({SubSeq(<<1, 2, 3, 4>>, 1, MaxRelayLen)})

\* The handshake of the drivers on the client stream s, with hooks that
\* allow everything, an outbound socket or listener bound to bound and, for
\* SOCKS5 BIND, a connection accepted from peer: whether it reaches the
\* relay, how many bytes of s it has read by then (used) and the bytes it
\* has written to the client (reply).  Socks5Handler::bind replies twice,
\* with the listener's address and then with the peer's.
relay_start(s, bound, peer) ==
  LET v == from_stream(s, TRUE)
      g == DropFirst(s, v.used)
      yes == [ok |-> TRUE, val |-> TRUE, err |-> NoError]
  IN CASE v.tag = "V4" ->
            LET r == handshake_request(g, yes)
            IN [ok |-> r.ok, used |-> v.used + r.used,
                reply |-> Socks4ReplyFrame("Granted", bound)]
       [] v.tag = "V5" ->
            LET m == negotiate_method(g, [ok |-> TRUE, method |-> MethodNone,
                                          err |-> NoError])
                a == auth(DropFirst(g, m.used), m.method, yes)
                q == negotiate_request(DropFirst(g, m.used + a.used), yes, yes)
            IN [ok |-> m.ok /\ a.tag = "Ok" /\ q.ok /\ q.command # "Associate",
                used |-> v.used + m.used + a.used + q.used,
                reply |-> negotiate_method_reply(m.method)
                            \o Socks5ReplyFrame("Succeeded", bound)
                            \o (IF q.command = "Bind"
                                THEN Socks5ReplyFrame("Succeeded", peer)
                                ELSE <<>>)]
       [] OTHER -> [ok |-> FALSE, used |-> v.used, reply |-> <<>>]

\* A relay handed a reader that had taken one byte more from the stream.
relay_client_source_ahead(s, used) == DropFirst(s, used + 1)
\* io::copy_bidirectional(stream, ..) is handed the stream the handshake was
\* read from: the relay finds on it the bytes the handshake has not read.
relay_client_source(s, used) == DropFirst(s, used)

RelayState(m, sent, a, b) ==
  [mode |-> m,
   sent |-> sent,
   src |-> [d \in Dirs |-> IF d = "c2r" THEN a ELSE b],
   pos |-> [d \in Dirs |-> 0],
   buf |-> [d \in Dirs |-> <<>>],
   eof |-> [d \in Dirs |-> FALSE],
   out |-> [d \in Dirs |-> <<>>],
   done |-> [d \in Dirs |-> FALSE]]

\* The relay is about to start.  Under copy_bidirectional the client stream
\* carries a handshake h and then a; the driver has read the handshake (nrx)
\* and written its replies (tx).  forward_traffic is handed two sockets: a
\* is what the client socket carries from then on.
InitRelay ==
  /\ pc = "relay"
  /\ rx = <<>>
  /\ log = <<>>
  /\ result = Running
  /\ loc = InitLoc
  /\ env \in [local_addr : LocalAddrs, faulty : {FALSE}]
  /\ \E a \in RelayClientSent, b \in RelayRemoteSent :
       \/ \E h \in RelayHandshakes, bound \in BoundAddrs, peer \in PeerAddrs :
            LET st == relay_start(h \o a, bound, peer)
            IN /\ st.ok
               /\ socks = IF h[1] = 4 THEN "V4" ELSE "V5"
               /\ nrx = st.used
               /\ tx = st.reply
               /\ relay = RelayState("copy_bidirectional", a,
                                     relay_client_source(h \o a, st.used), b)
       \/ /\ socks = ""
          /\ nrx = 0
          /\ tx = <<>>
          /\ relay = RelayState("select", a, relay_client_source(a, 0), b)

\* A poll_read of k bytes: the next k bytes of the stream.
copy_read(src, pos, k) == SubSeq(src, pos + 1, pos + k)
\* A poll_write of k bytes: the first k bytes of the buffer, in order.
copy_write(out, buf, k) == out \o SubSeq(buf, 1, k)

\* select! has completed one of its branches: the other future is dropped.
SelectFinished ==
  /\ relay.mode = "select"
  /\ \E d \in Dirs : relay.done[d]

\* One direction reads k bytes behind what its buffer holds: into the empty
\* buffer, or topping the buffer up while its write is pending.
RelayRead ==
  /\ pc = "relay"
  /\ ~SelectFinished
  /\ \E d \in Dirs :
       /\ ~relay.done[d]
       /\ ~relay.eof[d]
       /\ relay.pos[d] < Len(relay.src[d])
       /\ \E k \in 1..(Len(relay.src[d]) - relay.pos[d]) :
            LET chunk == copy_read(relay.src[d], relay.pos[d], k)
            IN /\ relay' = [relay EXCEPT !.buf[d] = @ \o chunk,
                                         !.pos[d] = @ + k]
               /\ rx' = IF d = "c2r" THEN chunk ELSE rx
               /\ nrx' = IF d = "c2r" THEN nrx + k ELSE nrx
  /\ UNCHANGED <<pc, tx, log, result, socks, loc, env>>

\* One direction writes a part of its buffer; the write that empties the
\* buffer after the read of 0 bytes ends the direction.
RelayWrite ==
  /\ pc = "relay"
  /\ ~SelectFinished
  /\ \E d \in Dirs :
       /\ ~relay.done[d]
       /\ relay.buf[d] # <<>>
       /\ \E k \in 1..Len(relay.buf[d]) :
            /\ relay' = [relay EXCEPT !.out[d] = copy_write(@, relay.buf[d], k),
                                      !.buf[d] = SubSeq(@, k + 1, Len(@)),
                                      !.done[d] = relay.eof[d] /\ k = Len(relay.buf[d])]
            /\ tx' = IF d = "r2c" THEN copy_write(tx, relay.buf[d], k) ELSE tx
  /\ UNCHANGED <<pc, rx, nrx, log, result, socks, loc, env>>

\* One direction reads 0 bytes: it reads no more, and it ends when nothing
\* is left to write.
RelayEof ==
  /\ pc = "relay"
  /\ ~SelectFinished
  /\ \E d \in Dirs :
       /\ ~relay.done[d]
       /\ ~relay.eof[d]
       /\ relay.pos[d] = Len(relay.src[d])
       /\ relay' = [relay EXCEPT !.eof[d] = TRUE,
                                 !.done[d] = relay.buf[d] = <<>>]
  /\ UNCHANGED <<pc, rx, nrx, tx, log, result, socks, loc, env>>

\* io::copy_bidirectional returns when both directions have ended.
CopyBidirectionalReturn ==
  /\ pc = "relay"
  /\ relay.mode = "copy_bidirectional"
  /\ \A d \in Dirs : relay.done[d]
  /\ log' = Append(log, Ev("relay", "copy_bidirectional", "ok"))
  /\ result' = Ok
  /\ pc' = "done"
  /\ UNCHANGED <<rx, nrx, tx, socks, loc, env, relay>>

\* forward_traffic: select! returns when the first of the two copies ends.
ForwardTrafficReturn ==
  /\ pc = "relay"
  /\ SelectFinished
  /\ log' = Append(log, Ev("relay", "select", "ok"))
  /\ result' = Ok
  /\ pc' = "done"
  /\ UNCHANGED <<rx, nrx, tx, socks, loc, env, relay>>

NextRelay ==
  \/ RelayRead
  \/ RelayWrite
  \/ RelayEof
  \/ CopyBidirectionalReturn
  \/ ForwardTrafficReturn

SpecRelay == InitRelay /\ [][NextRelay]_vars

(* ------------------------------- claims -------------------------------- *)
\* Queries on the event log.
Happened(e) == \E i \in DOMAIN log : log[i] = e
ReadAt(at) == \E i \in DOMAIN log : log[i].ev = "read" /\ log[i].at = at
Called(hook) == \E i \in DOMAIN log : log[i].ev = "call" /\ log[i].at = hook
Before(e, i) == \E j \in 1..(i - 1) : log[j] = e
LastEvent == log[Len(log)]
\* The relay has run: from then on rx holds the bytes the client sent
\* during the relay and tx also holds the bytes of the remote host.
Relayed == \E i \in DOMAIN log : log[i].ev = "relay"
CommandHooks == {"handler.connect", "handler.bind", "handler.associate"}
MethodReplyWritten == Happened(Ev("write", "negotiate_method_reply", "ok"))

\* from_stream has just returned: rx is the frame it consumed.
FromStreamReturned ==
  \/ pc \in {"s4_handshake_request", "s5_negotiate_method"}
  \/ pc = "done" /\ LastEvent.at = "from_stream"

\* C1: from_stream consumes exactly one octet of the stream (none when the
\* stream is empty) and dispatches on it: 4 gives the SOCKS4 driver, 5 the
\* SOCKS5 driver, any other value v the error UnsupportedVersion(v).
C1_Dispatch ==
  FromStreamReturned =>
    /\ nrx = Len(rx)
    /\ nrx <= 1
    /\ rx = <<>> => socks = "" /\ result = Err(Eof)
    /\ rx # <<>> =>
         /\ nrx = 1
         /\ rx[1] = 4 => socks = "V4" /\ result = Running
         /\ rx[1] = 5 => socks = "V5" /\ result = Running
         /\ rx[1] \notin {4, 5} => socks = "" /\ result = Err(UnsupportedVersion(rx[1]))

C1_Witness ==
  pc = "done" /\ rx = <<9>> /\ nrx = 1 /\ result = Err(UnsupportedVersion(9))

\* C2: on a version octet that is neither 4 nor 5 the dispatcher shuts the
\* stream down before it returns; it writes no byte and calls no hook.
C2_UnsupportedVersionShutdown ==
  (FromStreamReturned /\ rx # <<>> /\ rx[1] \notin {4, 5}) =>
    /\ pc = "done"
    /\ log = <<Ev("read", "from_stream", "ok"), Ev("shutdown", "from_stream", "ok")>>
    /\ tx = <<>>
    /\ \A i \in DOMAIN log : log[i].ev \notin {"call", "write"}

C2_Witness ==
  pc = "done" /\ rx = <<0>> /\ LastEvent = Ev("shutdown", "from_stream", "ok")

\* The stage of the SOCKS5 state machine an event belongs to.
Socks5Stage(e) ==
  CASE e.at = "from_stream" -> 0
    [] e.at \in {"negotiate_method", "handler.negotiate_method"} -> 1
    [] e.at = "negotiate_method_reply" -> 2
    [] e.at \in {"auth", "handler.auth_by_user_pass"} -> 3
    [] e.at = "auth_reply" -> 4
    [] e.at \in {"negotiate_request", "handler.allow_command",
                 "handler.allow_addr_type"} -> 5
    [] e.at \in CommandHooks -> 6
    [] OTHER -> 7

\* C3: a SOCKS5 connection goes through greeting read, method reply,
\* sub-negotiation and auth reply, request read, command execution in that
\* order; no byte of the request is read before the method reply is written,
\* and connect, bind or associate is called only after the request is parsed
\* and both allow hooks returned true.
C3_Socks5Order ==
  socks = "V5" =>
    \A i \in DOMAIN log :
      /\ \A j \in 1..(i - 1) : Socks5Stage(log[j]) <= Socks5Stage(log[i])
      /\ (log[i].ev = "read" /\ log[i].at = "negotiate_request") =>
           /\ Before(Ev("read", "negotiate_method", "ok"), i)
           /\ Before(Ev("write", "negotiate_method_reply", "ok"), i)
      /\ (log[i].ev = "call" /\ log[i].at \in CommandHooks) =>
           /\ i >= 6
           /\ log[i - 5] = Ev("read", "negotiate_request", "ok")
           /\ log[i - 4] = Ev("call", "handler.allow_command", "true")
           /\ log[i - 3] = Ev("read", "negotiate_request", "ok")
           /\ log[i - 2] = Ev("call", "handler.allow_addr_type", "true")
           /\ log[i - 1] = Ev("read", "negotiate_request", "ok")
           /\ loc.command \in {"Connect", "Bind", "Associate"}
           /\ loc.addr # NoAddr

C3_Witness ==
  /\ socks = "V5"
  /\ pc = "s5_relay"
  /\ Happened(Ev("write", "auth_reply", "ok"))
  /\ Called("handler.connect")

Nuls(g) == Cardinality({i \in DOMAIN g : g[i] = 0})
\* f is one whole SOCKS4 request: command, port, IP, the user id up to its
\* NUL and, when the IP is 0.0.0.x with x # 0, the host name up to its NUL.
WholeSocks4Request(f) ==
  /\ Len(f) >= 8
  /\ f[Len(f)] = 0
  /\ Nuls(DropFirst(f, 7)) =
       (IF f[4] = 0 /\ f[5] = 0 /\ f[6] = 0 /\ f[7] # 0 THEN 2 ELSE 1)

\* C4: in a SOCKS4 connection the handler's connect or bind is called only
\* after the whole request was read and identd returned true, and at most
\* once.
C4_Socks4Order ==
  socks = "V4" =>
    /\ pc = "s4_identd" => WholeSocks4Request(rx)
    /\ (Called("handler.identd") /\ ~Relayed) => WholeSocks4Request(rx)
    /\ \A i \in DOMAIN log :
         (log[i].ev = "call" /\ log[i].at \in CommandHooks) =>
           /\ i = 6
           /\ log[2] = Ev("read", "handshake_request", "ok")
           /\ log[4] = Ev("read", "handshake_request", "ok")
           /\ log[5] = Ev("call", "handler.identd", "true")
           /\ \A j \in DOMAIN log :
                (log[j].ev = "call" /\ log[j].at \in CommandHooks) => j = i

C4_Witness ==
  /\ socks = "V4"
  /\ pc = "s4_relay"
  /\ loc.addr.type = "Domain"
  /\ Called("handler.connect")

\* The method octets of the greeting f.
Offered(f) == {f[i] : i \in 2..Len(f)}

\* C6: the method byte of the method-selection reply is one of the methods
\* the client offered, or 0xFF; a handler's choice outside the list is
\* written as 0xFF.
C6_MethodOffered ==
  (/\ pc \in {"s5_auth", "s5_execute_err"}
   /\ LastEvent = Ev("write", "negotiate_method_reply", "ok")) =>
    /\ Len(tx) = 2
    /\ tx[1] = VERSION
    /\ tx[2] \in Offered(rx) \cup {255}
    /\ loc.nm.ok => tx[2] = MethodIntoU8(loc.nm.method)

C6_Witness ==
  /\ pc = "s5_auth"
  /\ rx = <<1, 2>>
  /\ tx = <<5, 255>>
  /\ LastEvent = Ev("write", "negotiate_method_reply", "ok")

\* C5: once negotiate_method has returned NoAcceptable and 05 FF is
\* written, the server reads nothing more (no sub-negotiation, no request)
\* and the connection ends normally, without an error.
C5_NoAcceptableEndsCleanly ==
  (/\ socks = "V5"
   /\ MethodReplyWritten
   /\ loc.nm.ok
   /\ loc.nm.method = Unacceptable) =>
    /\ tx = <<5, 255>>
    /\ ~ReadAt("auth")
    /\ ~ReadAt("negotiate_request")
    /\ pc = "done" => result = Ok

\* C7: after a username/password sub-negotiation that reached the
\* authenticate hook, the auth reply is 01 STATUS with STATUS 0 when the
\* hook returned true and nonzero when it returned false or failed.
C7_AuthReplyStatus ==
  (/\ socks = "V5"
   /\ Called("handler.auth_by_user_pass")
   /\ LastEvent = Ev("write", "auth_reply", "ok")) =>
    /\ Len(tx) = 4
    /\ tx[3] = 1
    /\ Happened(Ev("call", "handler.auth_by_user_pass", "true")) => tx[4] = 0
    /\ ~Happened(Ev("call", "handler.auth_by_user_pass", "true")) => tx[4] # 0

\* C8: after the authenticate hook returned false the server reads no
\* request and calls none of allow_command, allow_addr_type, connect, bind
\* and associate.
C8_AuthFailedCloses ==
  Happened(Ev("call", "handler.auth_by_user_pass", "false")) =>
    /\ ~ReadAt("negotiate_request")
    /\ ~Called("handler.allow_command")
    /\ ~Called("handler.allow_addr_type")
    /\ \A h \in CommandHooks : ~Called(h)

\* C9: with a negotiated method other than NoAuth and UserPass (GSSAPI, a
\* private method) the connection ends with the error NotImplemented
\* returned to the caller, not with a panic.
C9_OtherMethodNotImplemented ==
  (/\ socks = "V5"
   /\ MethodReplyWritten
   /\ loc.method \notin {MethodNone, UserPass, Unacceptable}
   /\ pc = "done") =>
    /\ result.tag = "Err"
    /\ "NotImplemented" \in {result.err.kind, result.err.of}

\* C10: when the first octet of the request is not 5, nothing is written
\* to the client from that read to the end of the connection.
C10_BadVersionNoReply ==
  (/\ socks = "V5"
   /\ ReadAt("negotiate_request")
   /\ ~Relayed
   /\ rx # <<>> /\ rx[1] # VERSION) =>
    \A i \in DOMAIN log :
      (log[i].ev = "read" /\ log[i].at = "negotiate_request") =>
        \A j \in (i + 1)..Len(log) : log[j].ev # "write"

\* The bytes the library itself wrote to the client: tx without the bytes
\* of the remote host that the relay forwarded.
Written ==
  SubSeq(tx, 1, loc.relayed.at) \o DropFirst(tx, loc.relayed.at + loc.relayed.n)

\* The bytes written after the method reply and the auth reply: the SOCKS5
\* reply frames.
HandshakeBytes ==
  2 * Cardinality({i \in DOMAIN log :
                     /\ log[i].ev = "write"
                     /\ log[i].at \in {"negotiate_method_reply", "auth_reply"}
                     /\ log[i].ret = "ok"})
Replies == DropFirst(Written, HandshakeBytes)
\* negotiate_request failed on the frame rx and the reply for it was written.
RequestErrReplied ==
  /\ socks = "V5"
  /\ pc = "s5_execute_err"
  /\ loc.command = ""
  /\ ReadAt("negotiate_request")
  /\ LastEvent.ev = "write" /\ LastEvent.at = "reply" /\ LastEvent.ret = "ok"

\* C11: a request whose CMD octet is not 1, 2 or 3 is answered with exactly
\* one reply frame, 10 bytes long (IPv4 local address) with REP = 7.
C11_InvalidCommandReply ==
  (/\ RequestErrReplied
   /\ env.local_addr.fam = "V4"
   /\ Len(rx) = 2 /\ rx[1] = VERSION /\ rx[2] \notin {1, 2, 3}) =>
    /\ Len(Replies) = 10
    /\ Replies[1] = VERSION
    /\ Replies[2] = 7

\* C12: a request whose ATYP octet is not 1, 3 or 4 is answered with a
\* reply frame with REP = 8.
C12_InvalidAddrTypeReply ==
  (/\ RequestErrReplied
   /\ Len(rx) = 4 /\ rx[1] = VERSION /\ rx[2] \in {1, 2, 3}
   /\ rx[4] \notin {1, 3, 4}) =>
    /\ Len(Replies) \in {10, 22}
    /\ Replies[1] = VERSION
    /\ Replies[2] = 8

\* C13: after allow_command returned false every reply has REP = 7, after
\* allow_addr_type returned false every reply has REP = 8, and in both
\* cases connect, bind and associate are never called.
C13_PolicyRejection ==
  socks = "V5" =>
    /\ Happened(Ev("call", "handler.allow_command", "false")) =>
         /\ \A h \in CommandHooks : ~Called(h)
         /\ \A i \in DOMAIN log :
              (log[i].ev = "write" /\ log[i].at = "reply") =>
                log[i].arg = "UnsupportedCommand"
         /\ RequestErrReplied => Len(Replies) \in {10, 22} /\ Replies[2] = 7
    /\ Happened(Ev("call", "handler.allow_addr_type", "false")) =>
         /\ \A h \in CommandHooks : ~Called(h)
         /\ \A i \in DOMAIN log :
              (log[i].ev = "write" /\ log[i].at = "reply") =>
                log[i].arg = "UnsupportedAddressType"
         /\ RequestErrReplied => Len(Replies) \in {10, 22} /\ Replies[2] = 8

C13_Witness ==
  /\ RequestErrReplied
  /\ Happened(Ev("call", "handler.allow_addr_type", "false"))
  /\ rx = <<5, 2, 0, 3>>
  /\ Replies[2] = 8

\* C14: the request is validated in the order version, CMD, ATYP, command
\* policy, address policy, and the reply code is that of the first failing
\* check: a command rejected by policy is answered with 7 only when the
\* ATYP octet of the request was read and found valid.
C14_ValidationOrder ==
  (/\ RequestErrReplied
   /\ Happened(Ev("call", "handler.allow_command", "false"))
   /\ Replies[2] = 7) =>
    /\ Len(rx) >= 4
    /\ rx[4] \in {1, 3, 4}

\* The reply codes of the reply frames written so far, in order.
ReplyCodes ==
  LET w == SelectSeq(log, LAMBDA e : e.ev = "write" /\ e.at = "reply" /\ e.ret = "ok")
  IN [i \in 1..Len(w) |-> w[i].arg]
\* The socket addresses a reply may carry.
KnownAddrs == LocalAddrs \cup BoundAddrs \cup PeerAddrs

RECURSIVE Socks5FramesOk(_, _)
\* bytes is one well-formed SOCKS5 reply frame for each code of codes.
Socks5FramesOk(bytes, codes) ==
  IF codes = <<>> THEN bytes = <<>>
  ELSE /\ Len(bytes) >= 4
       /\ bytes[1] = 5
       /\ bytes[2] = Socks5ReplyIntoU8(codes[1])
       /\ bytes[3] = 0
       /\ bytes[4] \in {1, 4}
       /\ LET n == IF bytes[4] = 1 THEN 10 ELSE 22
          IN /\ Len(bytes) >= n
             /\ \E a \in KnownAddrs :
                  /\ a.fam = (IF bytes[4] = 1 THEN "V4" ELSE "V6")
                  /\ SubSeq(bytes, 5, n - 2) = a.ip
                  /\ bytes[n - 1] = a.port \div 256
                  /\ bytes[n] = a.port % 256
             /\ Socks5FramesOk(DropFirst(bytes, n), Tail(codes))

\* C15: every SOCKS5 reply frame written is 05 REP 00 ATYP BND.ADDR
\* BND.PORT, the port big-endian after the address: 10 bytes with ATYP 1
\* for an IPv4 address, 22 bytes with ATYP 4 for an IPv6 address.
C15_Socks5ReplyFrame ==
  socks = "V5" => Socks5FramesOk(Replies, ReplyCodes)

C15_Witness ==
  /\ socks = "V5"
  /\ pc = "s5_relay"
  /\ Len(Replies) = 32
  /\ Replies[4] = 4
  /\ SubSeq(Replies, 21, 32) = <<16, 0, 5, 0, 0, 1, 198, 51, 100, 7, 7, 229>>

RECURSIVE Socks4FramesOk(_, _)
\* bytes is one 8-byte SOCKS4 reply frame for each code of codes, an IPv6
\* bound address being written as 0.0.0.0.
Socks4FramesOk(bytes, codes) ==
  IF codes = <<>> THEN bytes = <<>>
  ELSE /\ Len(bytes) >= 8
       /\ bytes[1] = 0
       /\ bytes[2] = Socks4ReplyIntoU8(codes[1])
       /\ \E a \in KnownAddrs :
            /\ bytes[3] = a.port \div 256
            /\ bytes[4] = a.port % 256
            /\ SubSeq(bytes, 5, 8) = (IF a.fam = "V4" THEN a.ip ELSE <<0, 0, 0, 0>>)
       /\ Socks4FramesOk(DropFirst(bytes, 8), Tail(codes))

\* C16: every SOCKS4 reply frame written is exactly the 8 bytes 00 REP
\* DSTPORT (big-endian) DSTIP, whatever the bound address; for an IPv6
\* bound address DSTIP is 0.0.0.0.
C16_Socks4ReplyFrame ==
  socks = "V4" => Socks4FramesOk(Written, ReplyCodes)

\* C17: the SOCKS4 request parser yields Domain(hostname, port) exactly
\* when DSTIP is 0.0.0.x with x # 0, the hostname being the second
\* NUL-terminated string; for every other DSTIP (0.0.0.0 included) it
\* yields V4(DSTIP, port) and reads nothing after the user id's NUL.
C17_Socks4aAddress ==
  (socks = "V4" /\ pc = "s4_identd") =>
    /\ Len(rx) >= 8
    /\ rx[Len(rx)] = 0
    /\ nrx = 1 + Len(rx)
    /\ LET ip == SubSeq(rx, 4, 7)
           port == rx[2] * 256 + rx[3]
           g == DropFirst(rx, 7)
           marker == ip[1] = 0 /\ ip[2] = 0 /\ ip[3] = 0 /\ ip[4] # 0
       IN /\ (loc.addr.type = "Domain") <=> marker
          /\ marker =>
               /\ Nuls(g) = 2
               /\ LET n == CHOOSE i \in 1..(Len(g) - 1) : g[i] = 0
                  IN loc.addr = SocksAddr("Domain", SubSeq(g, n + 1, Len(g) - 1), port)
          /\ ~marker =>
               /\ Nuls(g) = 1
               /\ loc.addr = SocksAddr("IPV4", ip, port)

C17_Witness ==
  /\ socks = "V4"
  /\ pc = "s4_identd"
  /\ rx = <<1, 0, 80, 0, 0, 0, 7, 97, 0, 97, 97, 0>>
  /\ loc.addr = SocksAddr("Domain", <<97, 97>>, 80)

\* C18: when identd returns false the server writes one Rejected (0x5B)
\* reply, the connection fails with AuthFailed, and neither connect nor
\* bind is called.
C18_IdentdRejected ==
  (socks = "V4" /\ Happened(Ev("call", "handler.identd", "false"))) =>
    /\ \A h \in CommandHooks : ~Called(h)
    /\ pc \in {"s4_accept_err", "done"} =>
         /\ ReplyCodes = <<"Rejected">>
         /\ Len(tx) >= 2 /\ tx[1] = 0 /\ tx[2] = 91
    /\ pc = "done" => result = Err(AuthFailed)

C18_Witness ==
  /\ socks = "V4"
  /\ pc = "done"
  /\ Happened(Ev("call", "handler.identd", "false"))
  /\ result = Err(AuthFailed)
  /\ tx[2] = 91

\* C19: SOCKS4 CONNECT: when the handler's connect succeeds the server
\* writes one Granted (0x5A) reply carrying the bound address the handler
\* returned and only then relays; when it fails the server writes one
\* Rejected (0x5B) reply, never relays, and returns the handler's error.
C19_Socks4Connect ==
  socks = "V4" =>
    /\ Happened(Ev("call", "handler.connect", "ok")) =>
         /\ ReplyCodes = <<"Granted">>
         /\ Written[1] = 0 /\ Written[2] = 90
         /\ SubSeq(Written, 3, 4) = <<loc.bound.port \div 256, loc.bound.port % 256>>
         /\ DropFirst(Written, 4) = loc.bound.ip
         /\ \A i \in DOMAIN log :
              log[i].ev = "relay" => log[i - 1] = EvArg("write", "reply", "Granted", "ok")
         /\ Relayed => loc.relayed.at = 4 + Len(loc.bound.ip)
    /\ Happened(Ev("call", "handler.connect", "err")) =>
         /\ \A i \in DOMAIN log : log[i].ev # "relay"
         /\ loc.err \in ConnectErrors \cup {NotImplemented}
         /\ pc \in {"s4_accept_err", "done"} =>
              ReplyCodes = <<"Rejected">> /\ tx[1] = 0 /\ tx[2] = 91
         /\ pc = "done" => result = Err(loc.err)

C19_Witness ==
  /\ socks = "V4"
  /\ pc = "done"
  /\ result = Ok
  /\ Happened(Ev("call", "handler.connect", "ok"))
  /\ LastEvent = Ev("shutdown", "copy_bidirectional", "ok")
  /\ tx = <<0, 90, 16, 0, 10, 0, 0, 1, 1, 2>>

\* C20: for a SOCKS5 no-auth CONNECT whose outbound connection succeeds,
\* the bytes written before relaying are exactly 05 00 followed by one
\* reply frame with REP = 0 carrying the outbound connection's bound
\* address; the relay starts only after that frame is written.
C20_Socks5ConnectReply ==
  (/\ socks = "V5"
   /\ loc.method = MethodNone
   /\ Happened(Ev("call", "handler.connect", "ok"))) =>
    /\ pc = "s5_relay" =>
         tx = <<5, 0, 5, 0, 0, IF loc.bound.fam = "V4" THEN 1 ELSE 4>>
                \o loc.bound.ip
                \o <<loc.bound.port \div 256, loc.bound.port % 256>>
    /\ \A i \in DOMAIN log :
         log[i].ev = "relay" => log[i - 1] = EvArg("write", "reply", "Succeeded", "ok")

C20_Witness ==
  /\ socks = "V5"
  /\ pc = "done"
  /\ result = Ok
  /\ loc.method = MethodNone
  /\ Happened(Ev("call", "handler.connect", "ok"))
  /\ tx = <<5, 0, 5, 0, 0, 1, 10, 0, 0, 1, 16, 0>>

\* C21: when the SOCKS5 handler's connect fails the REP code of the reply
\* is derived from the error kind: connection refused gives 5, host
\* unreachable gives 4, any other error gives 1.
C21_ConnectErrorReply ==
  (/\ socks = "V5"
   /\ loc.method = MethodNone
   /\ Happened(Ev("call", "handler.connect", "err"))
   /\ pc = "s5_execute_err"
   /\ LastEvent.ev = "write" /\ LastEvent.at = "reply" /\ LastEvent.ret = "ok") =>
    /\ Len(Replies) \in {10, 22}
    /\ Replies[2] = (CASE loc.err = IoError("ConnectionRefused") -> 5
                       [] loc.err = IoError("HostUnreachable") -> 4
                       [] OTHER -> 1)

\* C22: a request with CMD = 3 (UDP ASSOCIATE), which is not implemented,
\* is answered with one reply frame with REP = 7 and the connection ends
\* with a returned result, not with an abort of the task.
C22_AssociateNotSupported ==
  (socks = "V5" /\ loc.method = MethodNone /\ loc.command = "Associate" /\ pc = "done") =>
    /\ result.tag \in {"Ok", "Err"}
    /\ ReplyCodes = <<"UnsupportedCommand">>
    /\ Len(Replies) \in {10, 22}
    /\ Replies[2] = 7

\* The bytes of a Succeeded reply frame carrying the address a.
SucceededFrame(a) ==
  <<5, 0, 0, IF a.fam = "V4" THEN 1 ELSE 4>> \o a.ip \o <<a.port \div 256, a.port % 256>>

\* C23: a successful SOCKS5 BIND writes exactly two Succeeded frames before
\* the relay: the first carries the listener's bound address and is
\* written before the accept, the second carries the accepted peer's
\* address and is written after it; one inbound connection is accepted.
C23_Socks5BindTwoReplies ==
  (socks = "V5" /\ loc.command = "Bind") =>
    /\ \A i \in DOMAIN log :
         /\ log[i].at = "listener.accept" =>
              /\ log[i - 2] = Ev("call", "handler.bind", "ok")
              /\ log[i - 1] = EvArg("write", "reply", "Succeeded", "ok")
              /\ \A j \in DOMAIN log : log[j].at = "listener.accept" => j = i
         /\ log[i].ev = "relay" =>
              /\ log[i - 2] = Ev("call", "listener.accept", "ok")
              /\ log[i - 1] = EvArg("write", "reply", "Succeeded", "ok")
    /\ pc = "s5_relay" =>
         /\ ReplyCodes = <<"Succeeded", "Succeeded">>
         /\ Replies = SucceededFrame(loc.bound) \o SucceededFrame(loc.peer)
    /\ Relayed =>
         SubSeq(tx, 1, loc.relayed.at) =
           SubSeq(tx, 1, HandshakeBytes)
             \o SucceededFrame(loc.bound) \o SucceededFrame(loc.peer)

C23_Witness ==
  /\ socks = "V5"
  /\ loc.command = "Bind"
  /\ pc = "done"
  /\ result = Ok
  /\ LastEvent = Ev("shutdown", "copy_bidirectional", "ok")
  /\ Len(Replies) = 32
  /\ loc.relayed.n = 2
  /\ rx = <<170, 187>>
  /\ loc.bound.fam = "V6"

\* C24: a successful SOCKS4 BIND writes a first Granted reply with the
\* listener's bound address, accepts one inbound connection, writes a
\* second Granted reply with the peer address, and only then relays.
C24_Socks4BindTwoReplies ==
  (socks = "V4" /\ loc.command = "Bind") =>
    \A i \in DOMAIN log :
      log[i].ev = "relay" =>
        /\ ReplyCodes = <<"Granted", "Granted">>
        /\ log[i - 2] = Ev("call", "listener.accept", "ok")
        /\ log[i - 1] = EvArg("write", "reply", "Granted", "ok")

\* C25: when the timeout of a pending BIND accept expires, a failure reply
\* (REP = 4, Host unreachable) is written before the stream is closed and
\* the connection does not end with a success result.
C25_BindTimeoutReply ==
  (/\ socks = "V5"
   /\ loc.method = MethodNone
   /\ Happened(Ev("call", "time.sleep", "elapsed"))
   /\ pc = "done") =>
    /\ result # Ok
    /\ Len(ReplyCodes) = 2
    /\ ReplyCodes[2] = "HostUnreachable"

\* C26: every byte 0..255 decodes to a Method (none is rejected) and that
\* Method encodes back to the same byte.
C26_MethodRoundTrip ==
  /\ pc \in {"codec_method", "codec_method_done"} =>
       loc.method.tag \in {"None", "GssApi", "UserPass", "IanaAssigned",
                           "Private", "Unacceptable"}
  /\ pc = "codec_method_done" => tx = rx
C26_Witness ==
  /\ pc = "codec_method_done"
  /\ rx = <<2>>
  /\ loc.method = UserPass
  /\ tx = <<2>>

\* C27: the SOCKS4 reply codes are Granted = 0x5A, Rejected = 0x5B, identd
\* unreachable = 0x5C and identd mismatch = 0x5D: each of these bytes decodes
\* to its variant and each variant encodes to its byte.
C27_Socks4ReplyCodes ==
  LET variant(b) == CASE b = 90 -> "Granted"
                      [] b = 91 -> "Rejected"
                      [] b = 92 -> "RejectedByCannotConnectIdentd"
                      [] b = 93 -> "RejectedByIdentdReportDifferentUserIds"
  IN /\ (pc \in {"codec_reply", "codec_reply_done"} /\ rx[1] \in 90..93) =>
          loc.reply = variant(rx[1])
     /\ pc = "codec_reply_done" =>
          \A b \in 90..93 : loc.reply = variant(b) => tx = <<b>>

\* s is a prefix of t.
IsPrefix(s, t) == Len(s) <= Len(t) /\ SubSeq(t, 1, Len(s)) = s

\* C28: during the relay, in each direction the bytes delivered are a prefix
\* of the bytes sent: none is dropped, duplicated, altered or reordered; in
\* particular while neither direction has reached EOF.  The bytes delivered
\* to the remote host are a prefix of what the client sent after its request,
\* and the bytes the client received after the driver's replies are a prefix
\* of what the remote host sent.
C28_RelayPrefix ==
  relay.mode \in RelayModes =>
    /\ IsPrefix(relay.out["c2r"], relay.sent)
    /\ IsPrefix(DropFirst(tx, Len(tx) - Len(relay.out["r2c"])), relay.src["r2c"])
    /\ Len(tx) >= Len(relay.out["r2c"])
C28_Witness ==
  /\ pc = "relay"
  /\ relay.mode = "copy_bidirectional"
  /\ socks = "V4"
  /\ nrx = 13
  /\ \A d \in Dirs : ~relay.eof[d]
  /\ relay.sent = <<97, 0>>
  /\ relay.out["c2r"] = <<97, 0>>
  /\ relay.src["r2c"] = <<1, 2>>
  /\ relay.buf["r2c"] = <<2>>
  /\ tx = <<0, 90, 16, 0, 10, 0, 0, 1, 1>>

\* C29: the relay returns only when both directions have ended and every
\* byte sent in either direction has been delivered; it does not return as
\* soon as the first direction ends.
C29_RelayWaitsForBoth ==
  (pc = "done" /\ relay.mode \in RelayModes) =>
    \A d \in Dirs : relay.done[d] /\ relay.out[d] = relay.src[d]

\* The greeting rx, of at least one method, has been read whole and
\* handler.negotiate_method returned for it what the default hook returns.
DefaultHookRan ==
  /\ socks = "V5"
  /\ nrx = 1 + Len(rx)
  /\ Len(rx) >= 2
  /\ Len(rx) = 1 + rx[1]
  /\ LET methods == [i \in 1..rx[1] |-> MethodFromU8(rx[1 + i])]
         r == negotiate_method(rx, default_negotiate_method(methods))
     IN loc.nm = [ok |-> r.ok, method |-> r.method, err |-> r.err]

\* C30: the default negotiate_method hook returns None when the client
\* offers 0x00 and Unacceptable otherwise; a client that does not offer 0x00
\* gets 05 FF and the connection ends without an error.
C30_DefaultNegotiateMethod ==
  /\ (pc = "s5_negotiate_method_reply" /\ DefaultHookRan) =>
       /\ loc.nm.ok
       /\ loc.nm.method = IF 0 \in Offered(rx) THEN MethodNone ELSE Unacceptable
  /\ (pc = "done" /\ DefaultHookRan /\ 0 \notin Offered(rx)) =>
       /\ tx = <<VERSION, 255>>
       /\ result = Ok

\* C31: with a handler that overrides nothing, the connect and bind hooks
\* of both versions fail with NotImplemented, the SOCKS4 authorize hook and
\* all allow hooks return true, and the username/password hook returns
\* false.
C31_DefaultHooks ==
  pc = "hook_done" =>
    /\ loc.hook.name \in {"socks4_command_connect", "socks4_command_bind",
                          "socks5_command_connect", "socks5_command_bind",
                          "connect", "bind"} =>
         loc.hret = Failed(NotImplemented)
    /\ loc.hook.name \in {"socks4_auth", "identd", "socks4_handshake_command",
                          "socks5_handshake_command", "socks5_handshake_address",
                          "allow_command", "allow_addr_type"} =>
         loc.hret = Returned("true")
    /\ loc.hook.name \in {"socks5_auth_username_password", "auth_by_user_pass"} =>
         loc.hret = Returned("false")

\* C32: when a SOCKS4 or SOCKS5 driver returns an error from its handshake
\* (before any relay), the last two things it did are the write of a
\* protocol reply and the shutdown of the client stream, in that order; a
\* reply whose write succeeded is in the bytes the client received.
C32_FailureReplyShutdownReturn ==
  (/\ pc = "done"
   /\ socks \in {"V4", "V5"}
   /\ result.tag = "Err"
   /\ \A i \in DOMAIN log : log[i].ev # "relay") =>
    /\ Len(log) >= 2
    /\ LastEvent.ev = "shutdown"
    /\ log[Len(log) - 1].ev = "write"
    /\ log[Len(log) - 1].ret = "ok" => tx # <<>>
    /\ ~env.faulty => (LastEvent.ret = "ok" /\ log[Len(log) - 1].ret = "ok")
C32_Witness ==
  /\ pc = "done"
  /\ socks = "V4"
  /\ result = Err(AuthFailed)
  /\ LastEvent = Ev("shutdown", "accept", "ok")
  /\ tx = Socks4ReplyFrame("Rejected", env.local_addr)

\* C33: after a read from the client failed with an I/O error during the
\* handshake (EOF in the middle of a message), nothing is written to the
\* client: the stream is only closed and the I/O error is returned.
C33_TransportErrorNoReply ==
  socks \in {"V4", "V5"} =>
    \A i \in DOMAIN log :
      (log[i].ev = "read" /\ log[i].ret = "eof") =>
        /\ \A j \in DOMAIN log : j > i => log[j].ev # "write"
        /\ pc = "done" => "UnexpectedEof" \in {result.err.kind, result.err.of}

\* C34: every Domain address a request parser produces has a name of 1 to
\* 255 bytes: a SOCKS5 domain request with length octet 0 and a SOCKS4a
\* request whose host name is an immediate NUL yield no Domain address, and
\* the handler's connect or bind is never called with one.
C34_DomainNonEmpty ==
  loc.addr.type = "Domain" => Len(loc.addr.host) \in 1..255

\* C35: every failure reply written (SOCKS4 Rejected, SOCKS5 REP # 0)
\* carries the all-zero address and port, 00 5B 00 00 00 00 00 00 or
\* 05 REP 00 01 00 00 00 00 00 00, whatever the server's local address
\* (stated for connections on which no read has failed).
C35_FailureReplyZeroAddress ==
  (/\ log # <<>>
   /\ LastEvent.ev = "write"
   /\ LastEvent.at = "reply"
   /\ LastEvent.ret = "ok"
   /\ LastEvent.arg \notin {"Succeeded", "Granted"}
   /\ \A i \in DOMAIN log : log[i].ret # "eof") =>
    LET n == Len(tx)
    IN IF socks = "V4"
       THEN n >= 8 /\ SubSeq(tx, n - 7, n) = <<0, 91, 0, 0, 0, 0, 0, 0>>
       ELSE /\ n >= 10
            /\ tx[n - 9] = VERSION
            /\ tx[n - 8] # 0
            /\ SubSeq(tx, n - 7, n) = <<0, 1, 0, 0, 0, 0, 0, 0>>

\* C37: in a SOCKS4 connection nothing is written to the client after a
\* Granted reply: no Rejected reply follows it, neither when the bind
\* handler fails after its Granted reply nor when the relay fails.
C37_Socks4NoRejectedAfterGranted ==
  (socks = "V4" /\ loc.addr.type = "IPV4") =>
    \A i, j \in DOMAIN log :
      (i < j /\ log[i] = EvArg("write", "reply", "Granted", "ok")) =>
        log[j].ev # "write"

\* C38: in a SOCKS5 connection no failure reply is written after a
\* Succeeded reply or after the relay has begun: when the handler's connect
\* or bind fails after its Succeeded reply (the relay's I/O error), the
\* driver writes no further frame.
C38_Socks5NoFailureAfterSucceeded ==
  (socks = "V5" /\ loc.method = MethodNone /\ loc.addr.type = "IPV4") =>
    \A i, j \in DOMAIN log :
      (/\ i < j
       /\ \/ log[i] = EvArg("write", "reply", "Succeeded", "ok")
          \/ log[i].ev = "relay") =>
        ~(log[j].ev = "write" /\ log[j].at = "reply" /\ log[j].arg # "Succeeded")

\* C39: the error returned is the handshake's own error even when the
\* reply write or the shutdown that follows it fails: UnsupportedVersion(v)
\* from the dispatcher, AuthFailed after identd returned false, the
\* request's error (InvalidCommand, ...) from the SOCKS5 driver; never the
\* I/O error of the write or shutdown.
C39_OriginalErrorReturned ==
  pc = "done" =>
    /\ (socks = "" /\ Len(rx) >= 1) =>
         result = Err(UnsupportedVersion(rx[1]))
    /\ (socks = "V4" /\ Happened(Ev("call", "handler.identd", "false"))) =>
         result = Err(AuthFailed)
    /\ (/\ socks = "V5"
        /\ loc.command = ""
        /\ \E i \in DOMAIN log : log[i].ev = "write" /\ log[i].at = "reply") =>
         /\ result.tag = "Err"
         /\ loc.herr.err.kind \in {result.err.kind, result.err.of}

\* C40: every connection terminates: when every read, write and hook the
\* driver awaits completes, the driver eventually returns Ok or a typed
\* error; no input makes it loop forever or abort the task.
C40_Terminates == <>(pc = "done" /\ result.tag \in {"Ok", "Err"})

====
